---------------------------- MODULE Spec2Model ----------------------------
(***************************************************************************)
(* A model of the job crawler's algorithmic parts, each with its own       *)
(* specification that holds the others idle:                               *)
(*   - Spec: the API key pool (utils/api_key_manager.py) and the retry     *)
(*     loops of the analysis call (utils/analyze_job.py) and of the        *)
(*     embedding call (utils/getEmbedding.py), run by several threads      *)
(*     that share the pool's cursor;                                       *)
(*   - TimeSpec: parse_posted_time of the ITviec and LinkedIn crawlers;    *)
(*   - HashSpec: generate_job_hash of the crawlers;                        *)
(*   - CrawlSpec: the page loop of crawl_linkedin, its analysis threads    *)
(*     and job_data_lock, and import_legacy_jobs;                          *)
(*   - StoreSpec: JobDatabaseInserter (utils/job_database_inserter.py);    *)
(*   - CsvSpec: JobCSVExporter (utils/csv_exporter.py);                    *)
(*   - AnalyzerSpec: AsyncJobAnalyzer (utils/async_job_analyzer.py);       *)
(*   - BackupSpec: load_backup (import_linkedin_jobs.py).                  *)
(* Texts (error messages, posted-time texts, titles) are sequences of      *)
(* one-char strings, so that lower-casing, substring tests and the         *)
(* regular expressions are computed, not assumed.                          *)
(***************************************************************************)
EXTENDS Integers, Sequences, FiniteSets, TLC

\* ------------------------------------------------------------------ bounds
\* Largest key pool loaded from key.txt.
MaxKeys == 3
\* Analysis calls the first thread makes one after the other.
MaxCalls == 2

\* Threads that run _analyze_job_content_sync (one per posting, started by
\* crawl_linkedin).
Threads == {1, 2}

\* ------------------------------------------------------------ text helpers
\* str.lower() on one character.
LowerChar(c) ==
  LET UpperLetters == <<"A","B","C","D","E","F","G","H","I","J","K","L","M",
                        "N","O","P","Q","R","S","T","U","V","W","X","Y","Z">>
      LowerLetters == <<"a","b","c","d","e","f","g","h","i","j","k","l","m",
                        "n","o","p","q","r","s","t","u","v","w","x","y","z">>
  IN
  IF \E i \in 1..26 : UpperLetters[i] = c
    THEN LowerLetters[CHOOSE i \in 1..26 : UpperLetters[i] = c]
    ELSE c

\* str.lower()
Lower(s) == [i \in 1..Len(s) |-> LowerChar(s[i])]

\* s[i..] starts with w (i is 1-based).
StartsWithAt(s, i, w) ==
  /\ i >= 1
  /\ i + Len(w) - 1 <= Len(s)
  /\ \A j \in 1..Len(w) : s[i + j - 1] = w[j]

\* Python's `w in s` on strings.
Contains(s, w) == \E i \in 1..(Len(s) + 1) : StartsWithAt(s, i, w)

\* ------------------------------------------------ error classification

\* The token list of _analyze_job_content_sync.
AnalyzeTokens ==
  {
    <<"a","p","i"," ","k","e","y">>,
    <<"q","u","o","t","a">>,
    <<"r","a","t","e"," ","l","i","m","i","t">>,
    <<"p","e","r","m","i","s","s","i","o","n">>,
    <<"u","n","a","u","t","h","o","r","i","z","e","d">>,
    <<"a","u","t","h","e","n","t","i","c","a","t","i","o","n">>,
    <<"e","x","h","a","u","s","t","e","d">> }

\* The token list of _get_embedding.
EmbedTokens ==
  {
    <<"a","p","i"," ","k","e","y">>,
    <<"q","u","o","t","a">>,
    <<"r","a","t","e"," ","l","i","m","i","t">>,
    <<"p","e","r","m","i","s","s","i","o","n">>,
    <<"u","n","a","u","t","h","o","r","i","z","e","d">>,
    <<"a","u","t","h","e","n","t","i","c","a","t","i","o","n">>,
    <<"i","n","t","e","r","n","a","l">> }

\* Messages of the exceptions the remote service raises.
Msg_ResourceExhausted ==
  <<"4","2","9"," ","R","E","S","O","U","R","C","E","_",
    "E","X","H","A","U","S","T","E","D">>
Msg_Internal == <<"5","0","0"," ","I","N","T","E","R","N","A","L">>
Msg_ApiKey ==
  <<"A","P","I"," ","k","e","y"," ","n","o","t"," ","v","a","l","i","d">>
Msg_Connection ==
  <<"C","o","n","n","e","c","t","i","o","n"," ","r","e","s","e","t">>

Messages == {Msg_ResourceExhausted, Msg_Internal, Msg_ApiKey, Msg_Connection}

\* any(err in error_message for err in [...])
AnyTokenIn(error_message, tokens) ==
  \E err \in tokens : Contains(error_message, err)

\* error_message = str(e).lower(); api_key_error = any(...)
AnalyzeApiKeyError(msg) == AnyTokenIn(Lower(msg), AnalyzeTokens)
EmbedApiKeyError(msg) == AnyTokenIn(Lower(msg), EmbedTokens)

\* `if retries < max_retries:` after `retries += 1`, with the off-by-one
\* mutant.
RetryLeftOffByOne(retries, max_retries) == retries <= max_retries
RetryLeft(retries, max_retries) == retries < max_retries

\* What a retry loop does with an exception: "retry" (rotate, go round
\* again), "exhausted" (return the default) or "abort" (return the default);
\* with the mutant that takes every exception for a credential error.
DecisionRotating(api_key_error, retries, max_retries) ==
  IF RetryLeft(retries + 1, max_retries) THEN "retry" ELSE "exhausted"
Decision(api_key_error, retries, max_retries) ==
  IF api_key_error
    THEN IF RetryLeft(retries + 1, max_retries) THEN "retry" ELSE "exhausted"
    ELSE "abort"

AnalyzeDecision(msg, retries, max_retries) ==
  Decision(AnalyzeApiKeyError(msg), retries, max_retries)
EmbedDecision(msg, retries, max_retries) ==
  Decision(EmbedApiKeyError(msg), retries, max_retries)


\* ------------------------------------------------------------ the key pool
\* Lines of key.txt; load_keys keeps the non-empty ones, stripped.
KeyNames == <<"key-a", "key-b", "key-c", "key-d", "key-e">>

\* What response.text can be after a successful generate_content.  present
\* is FALSE for None; backtick / quote / brace say which of the three
\* regular expressions finds a match; payload is what json.loads makes of
\* the matched string; desc / req say whether the parsed object has a
\* non-empty job_description / job_requirements.
NoText ==
  [present |-> FALSE, backtick |-> FALSE, quote |-> FALSE, brace |-> FALSE,
   payload |-> "none", desc |-> FALSE, req |-> FALSE]
Response(backtick, quote, brace, payload, desc, req) ==
  [present |-> TRUE, backtick |-> backtick, quote |-> quote, brace |-> brace,
   payload |-> payload, desc |-> desc, req |-> req]
Responses ==
  { NoText,
    Response(FALSE, FALSE, FALSE, "none", FALSE, FALSE),
    Response(TRUE, FALSE, TRUE, "dict", TRUE, TRUE),
    Response(FALSE, TRUE, TRUE, "dict", FALSE, TRUE),
    Response(FALSE, FALSE, TRUE, "dict", FALSE, FALSE),
    Response(FALSE, FALSE, TRUE, "invalid", FALSE, FALSE),
    Response(TRUE, FALSE, FALSE, "nondict", FALSE, FALSE) }

VARIABLES
  api_keys,        \* APIKeyManager.api_keys
  current_index,   \* APIKeyManager.current_index (0-based)
  budget,          \* the calls each thread makes in this run
  pc,              \* where each thread is
  calls,           \* analysis calls each thread has started
  current_key,     \* _analyze_job_content_sync's local current_key
  retries,         \* its local retries
  max_retries,     \* its local max_retries
  text,            \* its local text
  frame,           \* "analysis" or "embedding": whose loop is running
  e_current_key,   \* _get_embedding's local current_key
  e_retries,       \* its local retries
  e_max_retries,   \* its local max_retries
  e_field,         \* which embedding: "desc" or "req"
  e_ret,           \* what _get_embedding returned
  nk_index,        \* the index next_key read before it stores
  error_message,   \* str(e) of the exception being handled
  ret,             \* what the analysis call returned: default, result, raise
  why,             \* the path it returned on
  attempts,        \* history: the outcomes of the requests of the retry
                   \* loop that runs (or that the call returned from)
  tried,           \* history: the keys those requests were made with
  entry_index,     \* history: the cursor when that loop was entered
  ok_key,          \* history: the key of the analysis request that succeeded
  prev,            \* history: the thread's previous call
  posted_text,     \* parse_posted_time's argument
  now_date,        \* its reference instant
  parsed,          \* what the two parse_posted_time return
  zero_pad,        \* the platform's strftime pads %Y to four digits
  job_pair,        \* the arguments of two calls of generate_job_hash
  job_keys,        \* what each generate_job_hash returned for the two
  cl_run,          \* the program that runs: crawl_linkedin or import_legacy_jobs
  cl_pc,           \* where it is
  max_pages,       \* config PAGE_LIMIT (0: no limit)
  current_page_num,
  cards_left,      \* the job cards of the page still to process
  job_data,        \* the number of records in job_data
  analysis_threads,  \* the threads started, in order: each runs or is over
  joined,          \* the threads the join loop has waited for
  exit_path,       \* history: how the page loop was left
  import_stats,    \* the stats of import_legacy_jobs
  job_data_lock,   \* the thread inside `with job_data_lock` (0: none)
  last_write,      \* history: the last write to the shared job results
  inserter,        \* the JobDatabaseInserter, its connection and the job table
  job_data_list,   \* insert_job_batch's argument
  batch_i,         \* the records of it the loop has handled
  stats,           \* insert_job_batch's stats
  runs,            \* the inserters constructed so far
  csv_jobs,        \* the records given to the CSV exporter
  csv_single,      \* the file append_single_job writes them to, row by row
  csv_batch,       \* the file append_jobs_batch writes them to
  clock,           \* time.time(), in tenths of a second
  last_call_time,  \* AsyncJobAnalyzer.last_call_time
  processed_hashes,  \* AsyncJobAnalyzer.processed_hashes
  an_jobs_data,    \* the records given to the analyzer (jobs_data)
  job_index,       \* the records handed to analyze_single_job so far
  task,            \* the asyncio tasks that call analyze_single_job
  remote_calls,    \* history: the remote analysis calls started
  backup_csvs,     \* the backup files of earlier days, in glob's order
  today_backup,    \* today's backup file
  load_runs,       \* the runs of load_backup since the files last changed
  appended         \* history: the rows the last run appended

client_vars ==
  <<api_keys, current_index, budget, pc, calls, current_key, retries,
    max_retries, text, frame, e_current_key, e_retries, e_max_retries,
    e_field, e_ret, nk_index, error_message, ret, why, attempts, tried,
    entry_index, ok_key,
    prev>>
time_vars == <<posted_text, now_date, parsed, zero_pad>>
job_vars == <<job_pair, job_keys>>
crawl_vars ==
  <<cl_run, cl_pc, max_pages, current_page_num, cards_left, job_data,
    analysis_threads, joined, exit_path, import_stats, job_data_lock,
    last_write>>
store_vars == <<inserter, job_data_list, batch_i, stats, runs>>
csv_vars == <<csv_jobs, csv_single, csv_batch>>
analyzer_vars ==
  <<clock, last_call_time, processed_hashes, an_jobs_data, job_index, task,
    remote_calls>>
backup_vars == <<backup_csvs, today_backup, load_runs, appended>>
more_vars == <<analyzer_vars, backup_vars>>
old_vars ==
  <<client_vars, time_vars, job_vars, crawl_vars, store_vars, csv_vars>>
pipe_vars == <<crawl_vars, store_vars, csv_vars, more_vars>>
beside_pipe == <<client_vars, time_vars, job_vars, more_vars>>
vars == <<client_vars, time_vars, job_vars, pipe_vars>>


\* APIKeyManager.get_current_key, with the mutant that ignores the cursor.
get_first_key == api_keys[1]
get_current_key == api_keys[current_index + 1]

\* next_key's new index, with the mutant that forgets the wrap-around.
NextIndexNoWrap(index, n) == index + 1
NextIndex(index, n) == (index + 1) % n

\* The state the time resolver's variables keep in the client's runs.
NotCalled == [status |-> "none", value |-> <<>>]
TimeIdle ==
  /\ posted_text = <<>>
  /\ now_date = [year |-> 2024, month |-> 1, day |-> 1, hour |-> 0, minute |-> 0]
  /\ parsed = [itviec |-> NotCalled, linkedin |-> NotCalled]
  /\ zero_pad = TRUE

\* The state the variables of the jobs keep in the other runs.
NoKeys == [linkedin |-> <<>>, itviec |-> <<>>, legacy |-> <<>>]
JobsIdle ==
  /\ job_pair = <<>>
  /\ job_keys = NoKeys
NoStats ==
  [total_jobs |-> 0, analyzed |-> 0, inserted |-> 0, duplicates |-> 0,
   errors |-> 0]
CrawlIdle ==
  /\ cl_run = "none"
  /\ cl_pc = "returned"
  /\ max_pages = 0
  /\ current_page_num = 1
  /\ cards_left = 0
  /\ job_data = 0
  /\ analysis_threads = <<>>
  /\ joined = 0
  /\ exit_path = "none"
  /\ import_stats = NoStats
  /\ job_data_lock = 0
  /\ last_write = <<>>
\* A new JobDatabaseInserter on the job table as `rows`: existing_job_ids
\* as load_existing_job_ids has left it, no transaction.
Inserter(rows, serial, ids) ==
  [rows |-> rows, pending |-> {}, tx |-> "idle", serial |-> serial,
   lost |-> FALSE, existing_job_ids |-> ids]
BatchStats(total) ==
  [total |-> total, inserted |-> 0, duplicates |-> 0, errors |-> 0]
StoreIdle ==
  /\ inserter = Inserter({}, 0, {})
  /\ job_data_list = <<>>
  /\ batch_i = 0
  /\ stats = BatchStats(0)
  /\ runs = 0
CsvIdle ==
  /\ csv_jobs = <<>>
  /\ csv_single = <<>>
  /\ csv_batch = <<>>
AnalyzerIdle ==
  /\ clock = 0
  /\ last_call_time = 0
  /\ processed_hashes = {}
  /\ an_jobs_data = <<>>
  /\ job_index = 0
  /\ task = <<>>
  /\ remote_calls = <<>>
BackupIdle ==
  /\ backup_csvs = <<>>
  /\ today_backup = <<>>
  /\ load_runs = 0
  /\ appended = <<>>
MoreIdle == AnalyzerIdle /\ BackupIdle
PipeIdle == CrawlIdle /\ StoreIdle /\ CsvIdle /\ MoreIdle

\* The callers of a run: the batch importer makes its calls one after the
\* other on one thread; crawl_linkedin starts one thread per posting, each
\* making one call.
Budgets ==
  { [t \in Threads |-> IF t = 1 THEN MaxCalls ELSE 0],
    [t \in Threads |-> 1] }

\* A run with one caller.
Sequential == \A t \in Threads \ {1} : budget[t] = 0

\* What the remote service answers.  The runs with one caller see every
\* response and every message; the runs with two threads see one response
\* without JSON and one whose JSON has nothing to embed, one credential
\* message and one other message.
ResponsesSeen ==
  IF Sequential
    THEN Responses
    ELSE { Response(FALSE, FALSE, FALSE, "none", FALSE, FALSE),
           Response(FALSE, FALSE, TRUE, "dict", FALSE, FALSE) }
MessagesSeen ==
  IF Sequential THEN Messages ELSE {Msg_ApiKey, Msg_Connection}

\* After get_api_key_manager(): the keys are loaded, the cursor is 0.
ClientInit(n, callers) ==
  /\ api_keys = SubSeq(KeyNames, 1, n)
  /\ current_index = 0
  /\ budget = callers
  /\ pc = [t \in Threads |-> "idle"]
  /\ calls = [t \in Threads |-> 0]
  /\ current_key = [t \in Threads |-> ""]
  /\ retries = [t \in Threads |-> 0]
  /\ max_retries = [t \in Threads |-> 0]
  /\ text = [t \in Threads |-> NoText]
  /\ frame = [t \in Threads |-> "analysis"]
  /\ e_current_key = [t \in Threads |-> ""]
  /\ e_retries = [t \in Threads |-> 0]
  /\ e_max_retries = [t \in Threads |-> 0]
  /\ e_field = [t \in Threads |-> "none"]
  /\ e_ret = [t \in Threads |-> "none"]
  /\ nk_index = [t \in Threads |-> 0]
  /\ error_message = [t \in Threads |-> <<>>]
  /\ ret = [t \in Threads |-> "none"]
  /\ why = [t \in Threads |-> "none"]
  /\ attempts = [t \in Threads |-> <<>>]
  /\ tried = [t \in Threads |-> {}]
  /\ entry_index = [t \in Threads |-> 0]
  /\ ok_key = [t \in Threads |-> ""]
  /\ prev = [t \in Threads |-> [why |-> "none", start |-> 0, end |-> 0]]

Init ==
  /\ \E n \in 1..MaxKeys : \E callers \in Budgets : ClientInit(n, callers)
  /\ TimeIdle
  /\ JobsIdle
  /\ PipeIdle

\* The locals of the frames a returning call leaves.
FrameLeft(t) ==
  /\ current_key' = [current_key EXCEPT ![t] = ""]
  /\ retries' = [retries EXCEPT ![t] = 0]
  /\ max_retries' = [max_retries EXCEPT ![t] = 0]
  /\ text' = [text EXCEPT ![t] = NoText]
  /\ frame' = [frame EXCEPT ![t] = "analysis"]
  /\ e_current_key' = [e_current_key EXCEPT ![t] = ""]
  /\ e_retries' = [e_retries EXCEPT ![t] = 0]
  /\ e_max_retries' = [e_max_retries EXCEPT ![t] = 0]
  /\ e_field' = [e_field EXCEPT ![t] = "none"]
  /\ e_ret' = [e_ret EXCEPT ![t] = "none"]
  /\ nk_index' = [nk_index EXCEPT ![t] = 0]
  /\ error_message' = [error_message EXCEPT ![t] = <<>>]

\* The analysis call returns value (or raises) on the path reason.
Return(t, value, reason) ==
  /\ pc' = [pc EXCEPT ![t] = "done"]
  /\ ret' = [ret EXCEPT ![t] = value]
  /\ why' = [why EXCEPT ![t] = reason]
  /\ FrameLeft(t)
  /\ UNCHANGED <<api_keys, current_index, budget, calls, prev, time_vars, job_vars, pipe_vars>>

\* _analyze_job_content_sync is entered: lines 44-55.
Call(t) ==
  /\ pc[t] \in {"idle", "done"}
  /\ calls[t] < budget[t]
  /\ calls' = [calls EXCEPT ![t] = @ + 1]
  /\ current_key' = [current_key EXCEPT ![t] = get_current_key]
  /\ max_retries' = [max_retries EXCEPT ![t] = Len(api_keys)]
  /\ retries' = [retries EXCEPT ![t] = 0]
  /\ text' = [text EXCEPT ![t] = NoText]
  /\ pc' = [pc EXCEPT ![t] = IF 0 < Len(api_keys) THEN "a_request" ELSE "a_parse"]
  /\ ret' = [ret EXCEPT ![t] = "none"]
  /\ why' = [why EXCEPT ![t] = "none"]
  /\ attempts' = [attempts EXCEPT ![t] = <<>>]
  /\ tried' = [tried EXCEPT ![t] = {}]
  /\ entry_index' = [entry_index EXCEPT ![t] = current_index]
  /\ ok_key' = [ok_key EXCEPT ![t] = ""]
  /\ prev' = [prev EXCEPT ![t] =
       [why |-> why[t], start |-> entry_index[t], end |-> current_index]]
  /\ UNCHANGED <<api_keys, current_index, budget, frame, e_current_key,
                 e_retries, e_max_retries, e_field, e_ret, nk_index,
                 error_message, time_vars, job_vars, pipe_vars>>

\* The three re.search of lines 117-122, in their order: which one matches.
Extract(response) ==
  IF response.backtick THEN "backtick"
  ELSE IF response.quote THEN "quote"
  ELSE IF response.brace THEN "brace"
  ELSE "none"

\* _get_embedding is entered (getEmbedding.py lines 9-11) for one field of
\* the parsed result.
EmbedEnter(t, field) ==
  /\ frame' = [frame EXCEPT ![t] = "embedding"]
  /\ e_field' = [e_field EXCEPT ![t] = field]
  /\ e_max_retries' = [e_max_retries EXCEPT ![t] = Len(api_keys)]
  /\ e_retries' = [e_retries EXCEPT ![t] = 0]
  /\ e_current_key' = [e_current_key EXCEPT ![t] = get_current_key]
  /\ e_ret' = [e_ret EXCEPT ![t] = "none"]
  /\ attempts' = [attempts EXCEPT ![t] = <<>>]
  /\ tried' = [tried EXCEPT ![t] = {}]
  /\ entry_index' = [entry_index EXCEPT ![t] = current_index]
  /\ pc' = [pc EXCEPT ![t] = IF 0 < Len(api_keys) THEN "e_request" ELSE "e_return"]
  /\ UNCHANGED <<api_keys, current_index, budget, calls, current_key, retries,
                 max_retries, nk_index, error_message, ret, why, prev, time_vars, job_vars, pipe_vars>>

\* Lines 117-169 with text = response: find the JSON in text, parse it, embed
\* two of its fields.  re.search(pattern, None) raises TypeError outside
\* every try.
Parse(t, response, requests, keys) ==
  LET Returns(value, reason) ==
        /\ Return(t, value, reason)
        /\ attempts' = [attempts EXCEPT ![t] = requests]
        /\ tried' = [tried EXCEPT ![t] = keys]
        /\ UNCHANGED entry_index
  IN
  IF ~response.present THEN Returns("raise", "type_error")
  ELSE IF Extract(response) = "none" THEN Returns("default", "no_json")
  ELSE IF response.payload # "dict" THEN Returns("default", "bad_json")
  ELSE IF response.desc
    THEN EmbedEnter(t, "desc") /\ text' = [text EXCEPT ![t] = response]
  ELSE IF response.req
    THEN EmbedEnter(t, "req") /\ text' = [text EXCEPT ![t] = response]
  ELSE Returns("result", "parsed")

\* generate_content returns: text = response.text; break (lines 75-81); then
\* lines 117-169.
AnalyzeResponse(t) ==
  /\ pc[t] = "a_request"
  /\ ok_key' = [ok_key EXCEPT ![t] = current_key[t]]
  /\ \E response \in ResponsesSeen :
       Parse(t, response, Append(attempts[t], "ok"),
             tried[t] \cup {current_key[t]})

\* generate_content raises: line 82-83, error_message = str(e).lower() (the
\* variable keeps str(e); the classification lower-cases it).
AnalyzeRaise(t) ==
  /\ pc[t] = "a_request"
  /\ \E msg \in MessagesSeen :
       error_message' = [error_message EXCEPT ![t] = msg]
  /\ pc' = [pc EXCEPT ![t] = "a_except"]
  /\ UNCHANGED <<api_keys, current_index, budget, calls, current_key, retries,
                 max_retries, text, frame, e_current_key, e_retries,
                 e_max_retries, e_field, e_ret, nk_index, ret, why, attempts, tried, entry_index,
                 ok_key, prev, time_vars, job_vars, pipe_vars>>

\* The except branch, lines 84-114.
AnalyzeExcept(t) ==
  /\ pc[t] = "a_except"
  /\ LET decision ==
           AnalyzeDecision(error_message[t], retries[t], max_retries[t]) IN
     /\ attempts' = [attempts EXCEPT ![t] =
          Append(@, IF decision = "abort" THEN "other" ELSE "cred")]
     /\ tried' = [tried EXCEPT ![t] = @ \cup {current_key[t]}]
     /\ IF decision = "retry"
          THEN /\ retries' = [retries EXCEPT ![t] = @ + 1]
               /\ pc' = [pc EXCEPT ![t] = "nk_read"]
               /\ error_message' = [error_message EXCEPT ![t] = <<>>]
               /\ UNCHANGED <<api_keys, current_index, budget, calls,
                              current_key, max_retries, text, frame,
                              e_current_key, e_retries, e_max_retries,
                              e_field, e_ret, nk_index, ret, why,
                              prev, time_vars, job_vars, pipe_vars>>
          ELSE Return(t, "default", decision)
  /\ UNCHANGED <<ok_key, entry_index>>

\* next_key, line 53: the right-hand side reads self.current_index ...
NextKeyRead(t) ==
  /\ pc[t] = "nk_read"
  /\ nk_index' = [nk_index EXCEPT ![t] = current_index]
  /\ pc' = [pc EXCEPT ![t] = "nk_write"]
  /\ UNCHANGED <<api_keys, current_index, budget, calls, current_key, retries,
                 max_retries, text, frame, e_current_key, e_retries,
                 e_max_retries, e_field, e_ret, error_message, ret, why,
                 attempts, tried, entry_index, ok_key, prev, time_vars, job_vars, pipe_vars>>

\* ... and the assignment stores the new index.
NextKeyWrite(t) ==
  /\ pc[t] = "nk_write"
  /\ current_index' = NextIndex(nk_index[t], Len(api_keys))
  /\ pc' = [pc EXCEPT ![t] = "nk_get"]
  /\ nk_index' = [nk_index EXCEPT ![t] = 0]
  /\ UNCHANGED <<api_keys, budget, calls, current_key, retries, max_retries,
                 text, frame, e_current_key, e_retries, e_max_retries,
                 e_field, e_ret, error_message, ret, why, attempts, tried, entry_index,
                 ok_key, prev, time_vars, job_vars, pipe_vars>>

\* next_key, line 54: return self.get_current_key(); the caller assigns it
\* to its current_key and tests its while condition again: the request is
\* made if retries < max_retries (which the test before next_key has
\* established); otherwise the loop is left, the analysis going on at line
\* 117 with text = None, the embedding returning None.
NextKeyGet(t) ==
  /\ pc[t] = "nk_get"
  /\ IF frame[t] = "analysis"
       THEN IF retries[t] < max_retries[t]
              THEN /\ current_key' = [current_key EXCEPT ![t] = get_current_key]
                   /\ pc' = [pc EXCEPT ![t] = "a_request"]
                   /\ UNCHANGED <<api_keys, current_index, budget, calls,
                                  retries, max_retries, text, frame,
                                  e_current_key, e_retries, e_max_retries,
                                  e_field, e_ret, nk_index, error_message,
                                  ret, why, attempts, tried, entry_index, prev,
                                  time_vars, job_vars, pipe_vars>>
              ELSE Parse(t, text[t], attempts[t], tried[t])
       ELSE /\ e_current_key' = [e_current_key EXCEPT ![t] = get_current_key]
            /\ pc' = [pc EXCEPT ![t] =
                 IF e_retries[t] < e_max_retries[t] THEN "e_request" ELSE "e_return"]
            /\ UNCHANGED <<api_keys, current_index, budget, calls,
                           current_key, retries, max_retries, text, frame,
                           e_retries, e_max_retries, e_field, e_ret,
                           nk_index, error_message, ret, why, attempts, tried, entry_index,
                           prev, time_vars, job_vars, pipe_vars>>
  /\ UNCHANGED ok_key

\* embed_content returns (getEmbedding.py lines 15-28): the values, or [] when
\* the response holds no embedding.
EmbedResponse(t) ==
  /\ pc[t] = "e_request"
  /\ attempts' = [attempts EXCEPT ![t] = Append(@, "ok")]
  /\ tried' = [tried EXCEPT ![t] = @ \cup {e_current_key[t]}]
  /\ \E value \in {"vector", "empty"} : e_ret' = [e_ret EXCEPT ![t] = value]
  /\ pc' = [pc EXCEPT ![t] = "e_return"]
  /\ UNCHANGED <<api_keys, current_index, budget, calls, current_key, retries,
                 max_retries, text, frame, e_current_key, e_retries,
                 e_max_retries, e_field, nk_index, error_message, ret, why,
                 entry_index, ok_key, prev, time_vars, job_vars, pipe_vars>>

\* embed_content raises: getEmbedding.py lines 29-31.
EmbedRaise(t) ==
  /\ pc[t] = "e_request"
  /\ \E msg \in MessagesSeen :
       error_message' = [error_message EXCEPT ![t] = msg]
  /\ pc' = [pc EXCEPT ![t] = "e_except"]
  /\ UNCHANGED <<api_keys, current_index, budget, calls, current_key, retries,
                 max_retries, text, frame, e_current_key, e_retries,
                 e_max_retries, e_field, e_ret, nk_index, ret, why, attempts, tried, entry_index,
                 ok_key, prev, time_vars, job_vars, pipe_vars>>

\* The except branch, getEmbedding.py lines 32-44.
EmbedExcept(t) ==
  /\ pc[t] = "e_except"
  /\ LET decision ==
           EmbedDecision(error_message[t], e_retries[t], e_max_retries[t]) IN
     /\ attempts' = [attempts EXCEPT ![t] =
          Append(@, IF decision = "abort" THEN "other" ELSE "cred")]
     /\ tried' = [tried EXCEPT ![t] = @ \cup {e_current_key[t]}]
     /\ e_retries' = [e_retries EXCEPT
                        ![t] = IF decision = "abort" THEN @ ELSE @ + 1]
     /\ IF decision = "retry"
          THEN /\ pc' = [pc EXCEPT ![t] = "nk_read"]
               /\ UNCHANGED e_ret
          ELSE /\ pc' = [pc EXCEPT ![t] = "e_return"]
               /\ e_ret' = [e_ret EXCEPT ![t] = "empty"]
  /\ error_message' = [error_message EXCEPT ![t] = <<>>]
  /\ UNCHANGED <<api_keys, current_index, budget, calls, current_key, retries,
                 max_retries, text, frame, e_current_key, e_max_retries,
                 e_field, nk_index, ok_key, ret, why, entry_index, prev, time_vars, job_vars, pipe_vars>>

\* _get_embedding has returned: analyze_job.py goes on with line 142 (the
\* second embedding) or line 145 (return result).
EmbedReturn(t) ==
  /\ pc[t] = "e_return"
  /\ IF e_field[t] = "desc" /\ text[t].req
       THEN EmbedEnter(t, "req") /\ UNCHANGED text
       ELSE /\ Return(t, "result", "parsed")
            /\ attempts' = [attempts EXCEPT ![t] = <<>>]
            /\ tried' = [tried EXCEPT ![t] = {}]
            /\ entry_index' = [entry_index EXCEPT ![t] = 0]
  /\ UNCHANGED ok_key

Next ==
  \E t \in Threads :
    \/ Call(t)
    \/ AnalyzeResponse(t)
    \/ AnalyzeRaise(t)
    \/ AnalyzeExcept(t)
    \/ NextKeyRead(t)
    \/ NextKeyWrite(t)
    \/ NextKeyGet(t)
    \/ EmbedResponse(t)
    \/ EmbedRaise(t)
    \/ EmbedExcept(t)
    \/ EmbedReturn(t)

Spec == Init /\ [][Next]_vars


\* ----------------------------------------------------------- posted time
\* Largest count N of the generated texts "N <unit>s ago".
MaxCount == 13

DigitChars == <<"0","1","2","3","4","5","6","7","8","9">>
\* \d and \s of the regular expressions, str.strip()'s whitespace.
IsDigit(c) == \E i \in 1..10 : DigitChars[i] = c
IsSpace(c) == c \in {" ", "\t", "\n"}
CharAt(s, i) == IF 1 <= i /\ i <= Len(s) THEN s[i] ELSE ""

\* int(match.group(1)) on a run of digits.
RECURSIVE IntOf(_)
IntOf(ds) ==
  IF ds = <<>> THEN 0
  ELSE 10 * IntOf(SubSeq(ds, 1, Len(ds) - 1))
       + (CHOOSE i \in 1..10 : DigitChars[i] = ds[Len(ds)]) - 1

\* The decimal digits of a natural number.
RECURSIVE StrOf(_)
StrOf(n) ==
  IF n < 10 THEN <<DigitChars[n + 1]>>
  ELSE Append(StrOf(n \div 10), DigitChars[(n % 10) + 1])

\* str.strip()
RECURSIVE LStrip(_)
LStrip(s) == IF s # <<>> /\ IsSpace(Head(s)) THEN LStrip(Tail(s)) ELSE s
RECURSIVE RStrip(_)
RStrip(s) ==
  IF s # <<>> /\ IsSpace(s[Len(s)])
    THEN RStrip(SubSeq(s, 1, Len(s) - 1))
    ELSE s
Strip(s) == RStrip(LStrip(s))

\* The digits that follow one another from position i on.
RECURSIVE DigitRun(_, _)
DigitRun(s, i) == IF IsDigit(CharAt(s, i)) THEN 1 + DigitRun(s, i + 1) ELSE 0
\* \s* from position i on: the position after the white space.
RECURSIVE SkipSpace(_, _)
SkipSpace(s, i) == IF IsSpace(CharAt(s, i)) THEN SkipSpace(s, i + 1) ELSE i

\* The words the resolvers look for.
W ==
  [posted |-> <<"p","o","s","t","e","d">>,
   today |-> <<"t","o","d","a","y">>,
   just_now |-> <<"j","u","s","t"," ","n","o","w">>,
   yesterday |-> <<"y","e","s","t","e","r","d","a","y">>,
   hours_ago |-> <<"h","o","u","r","s"," ","a","g","o">>,
   minutes_ago |-> <<"m","i","n","u","t","e","s"," ","a","g","o">>,
   minute |-> <<"m","i","n","u","t","e">>,
   hour |-> <<"h","o","u","r">>,
   day |-> <<"d","a","y">>,
   week |-> <<"w","e","e","k">>,
   month |-> <<"m","o","n","t","h">>,
   year |-> <<"y","e","a","r">>,
   ago |-> <<"a","g","o">>]

\* r"(\d+)\s*<unit>[s]?\s*ago" matches at position i.  Every quantifier is
\* greedy and none can give back a character that the next piece accepts,
\* so the match is the one that takes every digit and every blank.
AgoMatchAt(s, i, unit) ==
  /\ IsDigit(CharAt(s, i))
  /\ LET w == SkipSpace(s, i + DigitRun(s, i))
         e == w + Len(unit) IN
     /\ StartsWithAt(s, w, unit)
     /\ \/ CharAt(s, e) = "s" /\ StartsWithAt(s, SkipSpace(s, e + 1), W.ago)
        \/ StartsWithAt(s, SkipSpace(s, e), W.ago)

\* pattern.search(text): is there a match, and int(match.group(1)) of the
\* leftmost one.
AgoFound(s, unit) == \E i \in 1..Len(s) : AgoMatchAt(s, i, unit)
AgoCount(s, unit) ==
  LET i == CHOOSE k \in 1..Len(s) :
             /\ AgoMatchAt(s, k, unit)
             /\ \A j \in 1..(k - 1) : ~AgoMatchAt(s, j, unit)
  IN IntOf(SubSeq(s, i, i + DigitRun(s, i) - 1))

\* date_pattern, r'(\d{1,2})[\/\-\s](\d{1,2})[\/\-\s](\d{2,4})', at position
\* i: the positions of its pieces.  \d{1,2} takes two digits when there are
\* two (with one it would be followed by a digit, not by a separator).
UpTo(n, most) == IF n < most THEN n ELSE most
DatePieces(s, i) ==
  LET a == UpTo(DigitRun(s, i), 2)
      m == i + a + 1
      b == UpTo(DigitRun(s, m), 2)
      y == m + b + 1
      c == UpTo(DigitRun(s, y), 4)
  IN [day |-> SubSeq(s, i, i + a - 1),
      sep1 |-> CharAt(s, i + a),
      month |-> SubSeq(s, m, m + b - 1),
      sep2 |-> CharAt(s, m + b),
      year |-> SubSeq(s, y, y + c - 1)]
DateMatchAt(s, i) ==
  LET g == DatePieces(s, i) IN
  /\ Len(g.day) >= 1 /\ (g.sep1 \in {"/", "-"} \/ IsSpace(g.sep1))
  /\ Len(g.month) >= 1 /\ (g.sep2 \in {"/", "-"} \/ IsSpace(g.sep2))
  /\ Len(g.year) >= 2
DateFound(s) == \E i \in 1..Len(s) : DateMatchAt(s, i)
DateGroups(s) ==
  DatePieces(s, CHOOSE k \in 1..Len(s) :
                  /\ DateMatchAt(s, k)
                  /\ \A j \in 1..(k - 1) : ~DateMatchAt(s, j))

\* ------------------------------------------------- datetime and timedelta
\* The proleptic Gregorian calendar of datetime: years 1 to 9999.
IsLeap(year) == (year % 4 = 0 /\ year % 100 # 0) \/ year % 400 = 0
DaysInMonth(year, month) ==
  IF month = 2 THEN (IF IsLeap(year) THEN 29 ELSE 28)
  ELSE IF month \in {4, 6, 9, 11} THEN 30
  ELSE 31
\* datetime(year, month, day) does not raise ValueError.
ValidDate(year, month, day) ==
  /\ 1 <= year /\ year <= 9999
  /\ 1 <= month /\ month <= 12
  /\ 1 <= day /\ day <= DaysInMonth(year, month)
DaysBeforeYear(year) ==
  LET y == year - 1 IN y * 365 + (y \div 4) - (y \div 100) + (y \div 400)
RECURSIVE DaysBeforeMonth(_, _)
DaysBeforeMonth(year, month) ==
  IF month = 1 THEN 0
  ELSE DaysBeforeMonth(year, month - 1) + DaysInMonth(year, month - 1)
\* date.toordinal(): 0001-01-01 is day 1.
ToOrdinal(date) ==
  DaysBeforeYear(date.year) + DaysBeforeMonth(date.year, date.month) + date.day
\* date.fromordinal(n), n >= 1.
FromOrdinal(n) ==
  LET year == CHOOSE y \in ((n - 1) \div 366 + 1)..((n - 1) \div 365 + 1) :
                DaysBeforeYear(y) < n /\ n <= DaysBeforeYear(y + 1)
      rest == n - DaysBeforeYear(year)
      month == CHOOSE m \in 1..12 :
                 /\ DaysBeforeMonth(year, m) < rest
                 /\ rest <= DaysBeforeMonth(year, m) + DaysInMonth(year, m)
  IN [year |-> year, month |-> month,
      day |-> rest - DaysBeforeMonth(year, month)]

\* What a call of parse_posted_time does: it returns a string or it raises.
Returned(chars) == [status |-> "returned", value |-> chars]
Raised(exception) == [status |-> "raised", value |-> <<exception>>]

RECURSIVE Pad(_, _)
Pad(chars, width) ==
  IF Len(chars) < width THEN Pad(<<"0">> \o chars, width) ELSE chars
\* date.strftime("%Y-%m-%d"): %m and %d have two digits; %Y has four where
\* the platform pads it, and the year's own digits where it does not.
StrfTime(date, pad) ==
  (IF pad THEN Pad(StrOf(date.year), 4) ELSE StrOf(date.year))
    \o <<"-">> \o Pad(StrOf(date.month), 2)
    \o <<"-">> \o Pad(StrOf(date.day), 2)

\* (current_date - timedelta(days=days)).strftime("%Y-%m-%d"): the
\* subtraction raises OverflowError before 0001-01-01.
MinusDays(current_date, days, pad) ==
  LET n == ToOrdinal(current_date) - days IN
  IF n < 1 THEN Raised("OverflowError")
  ELSE Returned(StrfTime(FromOrdinal(n), pad))
\* The same with timedelta(minutes=minutes): the days that the minutes take
\* off the date (the seconds of current_date change nothing, the count
\* being whole minutes).
MinusMinutes(current_date, minutes, pad) ==
  LET of_day == current_date.hour * 60 + current_date.minute
      back == IF minutes <= of_day THEN 0
              ELSE (minutes - of_day + 1439) \div 1440
  IN MinusDays(current_date, back, pad)

\* The `while month <= 0` loop of the months branch.
RECURSIVE Rollover(_, _)
Rollover(year, month) ==
  IF month <= 0 THEN Rollover(year - 1, month + 12)
  ELSE [year |-> year, month |-> month]

\* The except branch of the months branch: the last day of the month, with
\* the mutant that forgets the leap years.
LastDayNoLeap(year, month) ==
  IF month = 2 THEN 28
  ELSE IF month \in {4, 6, 9, 11} THEN 30
  ELSE 31
LastDay(year, month) ==
  IF month = 2
    THEN (IF (year % 4 = 0 /\ year % 100 # 0) \/ year % 400 = 0
            THEN 29 ELSE 28)
  ELSE IF month \in {4, 6, 9, 11} THEN 30
  ELSE 31

\* The months branch: datetime(year, month, current_date.day), and in the
\* except ValueError branch datetime(year, month, last day), which raises
\* again when it is the year that is out of range.
MonthsAgo(current_date, months, pad) ==
  LET ym == Rollover(current_date.year, current_date.month - months)
      last == LastDay(ym.year, ym.month) IN
  IF ValidDate(ym.year, ym.month, current_date.day)
    THEN Returned(StrfTime([year |-> ym.year, month |-> ym.month,
                            day |-> current_date.day], pad))
  ELSE IF ValidDate(ym.year, ym.month, last)
    THEN Returned(StrfTime([year |-> ym.year, month |-> ym.month,
                            day |-> last], pad))
  ELSE Raised("ValueError")

\* The years branch with the mutant that takes a year to be 365 days.
YearsAgoAsDays(current_date, years, pad) ==
  MinusDays(current_date, 365 * years, pad)

\* The years branch: datetime(year - years, month, day), and in the except
\* ValueError branch datetime(year - years, month, 28).
YearsAgo(current_date, years, pad) ==
  LET year == current_date.year - years IN
  IF ValidDate(year, current_date.month, current_date.day)
    THEN Returned(StrfTime([year |-> year, month |-> current_date.month,
                            day |-> current_date.day], pad))
  ELSE IF ValidDate(year, current_date.month, 28)
    THEN Returned(StrfTime([year |-> year, month |-> current_date.month,
                            day |-> 28], pad))
  ELSE Raised("ValueError")

Today(current_date, pad) == Returned(StrfTime(current_date, pad))

\* The literal date of the ITviec resolver: day, month, year as matched, a
\* two-digit year made a year of this or of the last century.
LiteralDate(g) ==
  LET year == IF Len(g.year) = 2
                THEN (IF IntOf(g.year) < 50 THEN <<"2","0">> \o g.year
                      ELSE <<"1","9">> \o g.year)
                ELSE g.year
  IN [year |-> IntOf(year), month |-> IntOf(g.month), day |-> IntOf(g.day)]
\* The literal date decides, with the mutant that takes every match of
\* date_pattern for a date.
LiteralAny(s) == DateFound(s)

LiteralValid(s) ==
  /\ DateFound(s)
  /\ LET d == LiteralDate(DateGroups(s)) IN ValidDate(d.year, d.month, d.day)

\* parse_posted_time of crawler/itviecCrawler.py.
itviec_parse_posted_time(text_in, current_date, pad) ==
  IF text_in = <<>> THEN Today(current_date, pad)
  ELSE
    LET lowered == Strip(Lower(text_in))
        text_ == IF StartsWithAt(lowered, 1, W.posted)
                   THEN Strip(SubSeq(lowered, 7, Len(lowered)))
                   ELSE lowered
    IN
    IF Contains(text_, W.today) \/ Contains(text_, W.just_now) \/ text_ = <<>>
      THEN Today(current_date, pad)
    ELSE IF Contains(text_, W.yesterday) THEN MinusDays(current_date, 1, pad)
    ELSE IF LiteralValid(text_)
      THEN Returned(StrfTime(LiteralDate(DateGroups(text_)), pad))
    ELSE IF AgoFound(text_, W.minute)
      THEN MinusMinutes(current_date, AgoCount(text_, W.minute), pad)
    ELSE IF AgoFound(text_, W.hour)
      THEN MinusMinutes(current_date, 60 * AgoCount(text_, W.hour), pad)
    ELSE IF AgoFound(text_, W.day)
      THEN MinusDays(current_date, AgoCount(text_, W.day), pad)
    ELSE IF AgoFound(text_, W.week)
      THEN MinusDays(current_date, 7 * AgoCount(text_, W.week), pad)
    ELSE IF AgoFound(text_, W.month)
      THEN MonthsAgo(current_date, AgoCount(text_, W.month), pad)
    ELSE IF AgoFound(text_, W.year)
      THEN YearsAgo(current_date, AgoCount(text_, W.year), pad)
    ELSE Today(current_date, pad)

\* parse_posted_time of crawler/linkedinCrawler.py.
linkedin_parse_posted_time(text_in, current_date, pad) ==
  IF text_in = <<>> THEN Today(current_date, pad)
  ELSE
    LET text_ == Strip(Lower(text_in)) IN
    IF \/ \E indicator \in {W.today, W.just_now, W.hours_ago, W.minutes_ago} :
            Contains(text_, indicator)
       \/ text_ = <<>>
      THEN Today(current_date, pad)
    ELSE IF Contains(text_, W.yesterday) THEN MinusDays(current_date, 1, pad)
    ELSE IF AgoFound(text_, W.day)
      THEN MinusDays(current_date, AgoCount(text_, W.day), pad)
    ELSE IF AgoFound(text_, W.week)
      THEN MinusDays(current_date, 7 * AgoCount(text_, W.week), pad)
    ELSE IF AgoFound(text_, W.month)
      THEN MonthsAgo(current_date, AgoCount(text_, W.month), pad)
    ELSE IF AgoFound(text_, W.year)
      THEN YearsAgo(current_date, AgoCount(text_, W.year), pad)
    ELSE Today(current_date, pad)

\* ------------------------------------------------ the texts and references
P_Posted == <<"P","o","s","t","e","d"," ">>
Units == {W.minute, W.hour, W.day, W.week, W.month, W.year}
\* "N <unit>s ago" ("1 <unit> ago"), as the sites write it.
AgoText(prefix, n, unit) ==
  prefix \o StrOf(n) \o <<" ">> \o unit
    \o (IF n = 1 THEN <<>> ELSE <<"s">>) \o <<" ">> \o W.ago
GeneratedTexts ==
  { AgoText(prefix, n, unit) :
      prefix \in {<<>>, P_Posted}, n \in 0..MaxCount, unit \in Units }
\* Texts of other shapes.
\* "Posted yesterday"
T_yesterday == <<"P","o","s","t","e","d"," ","y","e","s","t","e","r","d","a","y">>
\* "31/02/2023" (no such day)
T_literal_invalid == <<"3","1","/","0","2","/","2","0","2","3">>
SpecialTexts ==
  {
    <<>>,
    \* "   " (only white space)
    <<" "," "," ">>,
    \* "Posted today"
    <<"P","o","s","t","e","d"," ","t","o","d","a","y">>,
    \* "Just now"
    <<"J","u","s","t"," ","n","o","w">>,
    T_yesterday,
    \* "Reposted 2 weeks ago"
    <<"R","e","p","o","s","t","e","d"," ","2"," ","w","e","e","k","s"," ","a","g","o">>,
    \* "an hour ago" (no count)
    <<"a","n"," ","h","o","u","r"," ","a","g","o">>,
    \* "30+ days ago" (the count is not followed by the unit)
    <<"3","0","+"," ","d","a","y","s"," ","a","g","o">>,
    \* "1 week 2 days ago"
    <<"1"," ","w","e","e","k"," ","2"," ","d","a","y","s"," ","a","g","o">>,
    \* "today, 2 days ago"
    <<"t","o","d","a","y",","," ","2"," ","d","a","y","s"," ","a","g","o">>,
    \* "15/01/2023"
    <<"1","5","/","0","1","/","2","0","2","3">>,
    \* "5-1-23"
    <<"5","-","1","-","2","3">>,
    \* "15/01/123" (a three-digit year)
    <<"1","5","/","0","1","/","1","2","3">>,
    T_literal_invalid,
    \* "3 days ago 15/01/2023"
    <<"3"," ","d","a","y","s"," ","a","g","o"," ","1","5","/","0","1","/","2","0","2","3">>,
    \* "3000 years ago"
    <<"3","0","0","0"," ","y","e","a","r","s"," ","a","g","o">>,
    \* "999999 days ago"
    <<"9","9","9","9","9","9"," ","d","a","y","s"," ","a","g","o">>,
    \* "150000 weeks ago"
    <<"1","5","0","0","0","0"," ","w","e","e","k","s"," ","a","g","o">>,
    \* "Posted 600 months ago"
    <<"P","o","s","t","e","d"," ","6","0","0"," ","m","o","n","t","h","s"," ","a","g","o">> }
\* Texts in which several rules match, and texts with a literal date that is
\* no calendar date or has a two-digit year.
\* "32/01/2023"
T_day_32 == <<"3","2","/","0","1","/","2","0","2","3">>
\* "15/13/2023"
T_month_13 == <<"1","5","/","1","3","/","2","0","2","3">>
\* "1/1/0000"
T_year_0 == <<"1","/","1","/","0","0","0","0">>
\* "32/01/2023 3 days ago"
T_day_32_days == <<"3","2","/","0","1","/","2","0","2","3"," ","3"," ","d","a","y","s"," ","a","g","o">>
MoreTexts ==
  {
    \* "today 15/01/2023"
    <<"t","o","d","a","y"," ","1","5","/","0","1","/","2","0","2","3">>,
    \* "just now 15/01/2023"
    <<"j","u","s","t"," ","n","o","w"," ","1","5","/","0","1","/","2","0","2","3">>,
    \* "15/01/2023 yesterday"
    <<"1","5","/","0","1","/","2","0","2","3"," ","y","e","s","t","e","r","d","a","y">>,
    \* "3 hours 20 minutes ago"
    <<"3"," ","h","o","u","r","s"," ","2","0"," ","m","i","n","u","t","e","s"," ","a","g","o">>,
    \* "1 year 2 months ago"
    <<"1"," ","y","e","a","r"," ","2"," ","m","o","n","t","h","s"," ","a","g","o">>,
    \* "yesterday, 30 hours ago"
    <<"y","e","s","t","e","r","d","a","y",","," ","3","0"," ","h","o","u","r","s"," ","a","g","o">>,
    T_day_32,
    T_month_13,
    T_year_0,
    T_day_32_days,
    \* "Posted 15-13-2023, 2 years ago"
    <<"P","o","s","t","e","d"," ","1","5","-","1","3","-","2","0","2","3",","," ","2"," ","y","e","a","r","s"," ","a","g","o">>,
    \* "1-1-49"
    <<"1","-","1","-","4","9">>,
    \* "1-1-50"
    <<"1","-","1","-","5","0">> }
PostedTexts == GeneratedTexts \cup SpecialTexts \cup MoreTexts

Instant(year, month, day, hour, minute) ==
  [year |-> year, month |-> month, day |-> day,
   hour |-> hour, minute |-> minute]
References ==
  { Instant(2024, 3, 31, 10, 30), Instant(2100, 3, 31, 0, 10),
    Instant(2024, 2, 29, 23, 59), Instant(2023, 3, 15, 0, 0),
    Instant(2024, 1, 1, 0, 5), Instant(2001, 5, 31, 8, 0),
    Instant(2024, 12, 31, 12, 0) }

\* ------------------------------------------------------ the resolver's runs
ClientIdle == ClientInit(1, [t \in Threads |-> 0])

TimeInit ==
  /\ ClientIdle
  /\ JobsIdle
  /\ PipeIdle
  /\ posted_text \in PostedTexts
  /\ now_date \in References
  /\ parsed = [itviec |-> NotCalled, linkedin |-> NotCalled]
  /\ zero_pad \in BOOLEAN

\* The ITviec crawler resolves the text.
ParseItviec ==
  /\ parsed.itviec = NotCalled
  /\ parsed' = [parsed EXCEPT
       !.itviec = itviec_parse_posted_time(posted_text, now_date, zero_pad)]
  /\ UNCHANGED <<client_vars, posted_text, now_date, zero_pad, job_vars, pipe_vars>>

\* The LinkedIn crawler resolves the text.
ParseLinkedin ==
  /\ parsed.linkedin = NotCalled
  /\ parsed' = [parsed EXCEPT
       !.linkedin = linkedin_parse_posted_time(posted_text, now_date, zero_pad)]
  /\ UNCHANGED <<client_vars, posted_text, now_date, zero_pad, job_vars, pipe_vars>>

TimeNext == ParseItviec \/ ParseLinkedin

TimeSpec == TimeInit /\ [][TimeNext]_vars

\* ---------------------------------------------------------- the dedup key
\* The posted_date argument: None, or a string.
NoDate == [given |-> FALSE, chars |-> <<>>]
DateArg(chars) == [given |-> TRUE, chars |-> chars]
\* `if posted_date:`: None and the empty string are both false.
Truthy(posted_date) == posted_date.given /\ posted_date.chars # <<>>

\* hashlib.sha256(job_string.encode('utf-8')).hexdigest(): the digest is
\* taken as collision-free, one digest for each string hashed.
Sha256HexDigest(job_string) == [sha256 |-> job_string]

\* f"{title.lower().strip()}|{company.lower().strip()}", with the mutant
\* that takes the arguments as they come.
JobStringAsGiven(title, company) == title \o <<"|">> \o company
JobString(title, company) ==
  Strip(Lower(title)) \o <<"|">> \o Strip(Lower(company))

\* generate_job_hash of crawler/linkedinCrawler.py.
linkedin_generate_job_hash(title, company, posted_date) ==
  Sha256HexDigest(
    IF Truthy(posted_date)
      THEN JobString(title, company) \o <<"|">> \o posted_date.chars
      ELSE JobString(title, company))

\* generate_job_hash of crawler/itviecCrawler.py.
itviec_generate_job_hash(title, company, posted_date) ==
  IF Truthy(posted_date)
    THEN Sha256HexDigest(
           JobString(title, company) \o <<"|">> \o posted_date.chars)
    ELSE Sha256HexDigest(JobString(title, company))

\* generate_job_hash of the legacy itviecCrawler.py: title and company only.
legacy_generate_job_hash(title, company) ==
  Sha256HexDigest(JobString(title, company))

\* The arguments of the calls: titles and companies that differ by case and
\* by the white space around them, a title and a company that hold the
\* character "|", and the dates None, "", "2024-01-01" and "2024-01-02".
JobArgs ==
  [title : { <<"D","e","v">>, <<" ","d","e","v"," ">>, <<"D","E","V">>,
             <<"O","p","s">>, <<"D","e","v","|","A","c","m","e">> },
   company : { <<"A","c","m","e">>, <<"A","C","M","E"," ">>,
               <<"B","o","l","t">>, <<"A","c","m","e","|","B","o","l","t">> },
   posted_date : { NoDate, DateArg(<<>>),
                   DateArg(<<"2","0","2","4","-","0","1","-","0","1">>),
                   DateArg(<<"2","0","2","4","-","0","1","-","0","2">>) }]

HashInit ==
  /\ ClientIdle
  /\ TimeIdle
  /\ PipeIdle
  /\ job_pair \in JobArgs \X JobArgs
  /\ job_keys = NoKeys

\* The LinkedIn crawler keys the two postings.
HashLinkedin ==
  /\ job_keys.linkedin = <<>>
  /\ job_keys' = [job_keys EXCEPT !.linkedin =
       [i \in 1..2 |-> linkedin_generate_job_hash(
          job_pair[i].title, job_pair[i].company, job_pair[i].posted_date)]]
  /\ UNCHANGED <<client_vars, time_vars, job_pair, pipe_vars>>

\* The ITviec crawler keys the two postings.
HashItviec ==
  /\ job_keys.itviec = <<>>
  /\ job_keys' = [job_keys EXCEPT !.itviec =
       [i \in 1..2 |-> itviec_generate_job_hash(
          job_pair[i].title, job_pair[i].company, job_pair[i].posted_date)]]
  /\ UNCHANGED <<client_vars, time_vars, job_pair, pipe_vars>>

\* The legacy ITviec crawler keys the two postings.
HashLegacy ==
  /\ job_keys.legacy = <<>>
  /\ job_keys' = [job_keys EXCEPT !.legacy =
       [i \in 1..2 |-> legacy_generate_job_hash(
          job_pair[i].title, job_pair[i].company)]]
  /\ UNCHANGED <<client_vars, time_vars, job_pair, pipe_vars>>

HashNext == HashLinkedin \/ HashItviec \/ HashLegacy

HashSpec == HashInit /\ [][HashNext]_vars

\* ------------------------------------------------------------- the crawl
\* The pages the model lets a crawl without page limit visit, and the
\* largest PAGE_LIMIT; the job cards of a page and the rows of the CSV file.
MaxPages == 1
MaxCards == 2

\* thread.join(): returns when the thread is over.  The mutant returns for
\* any thread that was started.
ThreadStarted(thread) == thread \in {"running", "updating", "terminated"}
ThreadJoined(thread) == thread = "terminated"

\* A write to the shared job results: job_data.append in crawl_linkedin
\* ("main") or the field updates of analyze_job_async ("analysis"), made
\* inside `with job_data_lock` or not, and the analysis thread that was
\* inside its with block at that time (0: none).
Written(by, locked, holder) ==
  <<[by |-> by, locked |-> locked, holder |-> holder]>>

CrawlInit ==
  /\ ClientIdle
  /\ TimeIdle
  /\ JobsIdle
  /\ StoreIdle
  /\ CsvIdle
  /\ MoreIdle
  /\ cl_run \in {"crawl_linkedin", "import_legacy_jobs"}
  /\ cl_pc = (IF cl_run = "crawl_linkedin" THEN "page" ELSE "start")
  /\ max_pages \in (IF cl_run = "crawl_linkedin" THEN 0..MaxPages ELSE {0})
  /\ current_page_num = 1
  /\ cards_left = 0
  /\ job_data = 0
  /\ analysis_threads = <<>>
  /\ joined = 0
  /\ exit_path = "none"
  /\ import_stats = NoStats
  /\ job_data_lock = 0
  /\ last_write = <<>>

\* `if max_pages != 0 and current_page_num > max_pages`
PageLimitReached == max_pages # 0 /\ current_page_num > max_pages

\* break, and browser.close() after the loop.
Break(path) ==
  /\ cl_pc' = "join"
  /\ exit_path' = path

\* The top of the page loop: the page limit, then the job cards of the page.
FindCards ==
  /\ cl_run = "crawl_linkedin" /\ cl_pc = "page"
  /\ \/ /\ PageLimitReached
        /\ Break("page_limit")
        /\ UNCHANGED cards_left
     \/ /\ ~PageLimitReached
        /\ \E n \in 0..MaxCards :
             IF n = 0
               THEN Break("no_cards") /\ UNCHANGED cards_left
               ELSE /\ cl_pc' = "cards"
                    /\ cards_left' = n
                    /\ UNCHANGED exit_path
  /\ UNCHANGED <<beside_pipe, store_vars, csv_vars, cl_run, max_pages, current_page_num, job_data,
                 analysis_threads, joined, import_stats,
                 job_data_lock, last_write>>

\* One job card: skipped (no ID, or an ID seen); its details appended and an
\* analysis thread started; its details appended, there being no
\* description; a placeholder appended after an error; or its details and
\* a placeholder appended, the thread failing to start.  The details are
\* appended inside `with job_data_lock` (lines 486-487), which waits for the
\* lock; the placeholder is appended by the except clause (line 500), which
\* takes no lock.
CrawlCard ==
  /\ cl_run = "crawl_linkedin" /\ cl_pc = "cards" /\ cards_left > 0
  /\ \E outcome \in {"skipped", "analysed", "no_description", "detail_error",
                     "start_error"} :
       /\ outcome \in {"analysed", "no_description", "start_error"}
            => job_data_lock = 0
       /\ job_data' = job_data + (CASE outcome = "skipped" -> 0
                                    [] outcome = "start_error" -> 2
                                    [] OTHER -> 1)
       /\ analysis_threads' =
            IF outcome = "analysed" THEN Append(analysis_threads, "running")
            ELSE analysis_threads
       /\ last_write' =
            CASE outcome = "skipped" -> last_write
              [] outcome \in {"analysed", "no_description"} ->
                   Written("main", TRUE, job_data_lock)
              [] OTHER -> Written("main", FALSE, job_data_lock)
  /\ cards_left' = cards_left - 1
  /\ UNCHANGED <<beside_pipe, store_vars, csv_vars, cl_run, cl_pc, max_pages, current_page_num,
                 joined, exit_path, import_stats, job_data_lock>>

\* The pagination after the last card: the next page, or the end of the
\* crawl when there is no next page.
Paginate ==
  /\ cl_run = "crawl_linkedin" /\ cl_pc = "cards" /\ cards_left = 0
  /\ \/ /\ current_page_num <= MaxPages
        /\ current_page_num' = current_page_num + 1
        /\ cl_pc' = "page"
        /\ UNCHANGED exit_path
     \/ /\ Break("no_next")
        /\ UNCHANGED current_page_num
  /\ UNCHANGED <<beside_pipe, store_vars, csv_vars, cl_run, max_pages, cards_left, job_data,
                 analysis_threads, joined, import_stats,
                 job_data_lock, last_write>>

\* An exception in the page's try block (the cards' locator, the
\* pagination): the except clause breaks, unless its screenshot, or
\* browser.close() after the loop, raises in its turn.
PageError ==
  /\ cl_run = "crawl_linkedin"
  /\ \/ cl_pc = "page" /\ ~PageLimitReached
     \/ cl_pc = "cards" /\ cards_left = 0
  /\ \/ Break("page_error")
     \/ cl_pc' = "raised" /\ exit_path' = "page_error"
  /\ UNCHANGED <<beside_pipe, store_vars, csv_vars, cl_run, max_pages, current_page_num, cards_left,
                 job_data, analysis_threads, joined, import_stats,
                 job_data_lock, last_write>>

\* analyze_job_async, lines 289-341: the analysis has returned a dict; the
\* thread enters `with job_data_lock` and updates the fields of its record.
UpdateJobDetails ==
  /\ job_data_lock = 0
  /\ \E k \in 1..Len(analysis_threads) :
       /\ analysis_threads[k] = "running"
       /\ analysis_threads' = [analysis_threads EXCEPT ![k] = "updating"]
       /\ job_data_lock' = k
       /\ last_write' = Written("analysis", TRUE, 0)
  /\ UNCHANGED <<beside_pipe, store_vars, csv_vars, cl_run, cl_pc, max_pages, current_page_num,
                 cards_left, job_data, joined, exit_path, import_stats>>

\* analyze_job_async comes to its end in its thread: it leaves the with
\* block, or the analysis has raised and the except clause has logged it.
AnalyzeJobAsync ==
  /\ \E k \in 1..Len(analysis_threads) :
       /\ analysis_threads[k] \in {"running", "updating"}
       /\ analysis_threads' = [analysis_threads EXCEPT ![k] = "terminated"]
       /\ job_data_lock' = IF job_data_lock = k THEN 0 ELSE job_data_lock
  /\ UNCHANGED <<beside_pipe, store_vars, csv_vars, cl_run, cl_pc, max_pages, current_page_num,
                 cards_left, job_data, joined, exit_path, import_stats, last_write>>

\* `for thread in analysis_threads: thread.join()`
JoinThreads ==
  /\ cl_run = "crawl_linkedin" /\ cl_pc = "join"
  /\ IF joined < Len(analysis_threads)
       THEN /\ ThreadJoined(analysis_threads[joined + 1])
            /\ joined' = joined + 1
            /\ UNCHANGED cl_pc
       ELSE /\ cl_pc' = "insert"
            /\ UNCHANGED joined
  /\ UNCHANGED <<beside_pipe, store_vars, csv_vars, cl_run, max_pages, current_page_num, cards_left,
                 job_data, analysis_threads, exit_path, import_stats,
                 job_data_lock, last_write>>

\* `if job_data:` insert_job_batch(job_data), any exception caught.
InsertJobData ==
  /\ cl_run = "crawl_linkedin" /\ cl_pc = "insert"
  /\ cl_pc' = "table"
  /\ UNCHANGED <<beside_pipe, store_vars, csv_vars, cl_run, max_pages, current_page_num, cards_left,
                 job_data, analysis_threads, joined, exit_path, import_stats,
                 job_data_lock, last_write>>

\* pd.DataFrame(job_data), returned.
MakeTable ==
  /\ cl_run = "crawl_linkedin" /\ cl_pc = "table"
  /\ cl_pc' = "returned"
  /\ UNCHANGED <<beside_pipe, store_vars, csv_vars, cl_run, max_pages, current_page_num, cards_left,
                 job_data, analysis_threads, joined, exit_path, import_stats,
                 job_data_lock, last_write>>

\* import_legacy_jobs: an empty file returns the stats as they are; with
\* rows, JobDatabaseInserter(logger) raises TypeError, __init__ taking no
\* argument, and the except clause counts one error and returns: the loop
\* over the batches is not reached.
ImportLegacyJobs ==
  /\ cl_run = "import_legacy_jobs" /\ cl_pc = "start"
  /\ \E rows \in 0..MaxCards :
       import_stats' =
         IF rows = 0 THEN import_stats
         ELSE [import_stats EXCEPT !.total_jobs = rows, !.errors = 1]
  /\ cl_pc' = "returned"
  /\ UNCHANGED <<beside_pipe, store_vars, csv_vars, cl_run, max_pages, current_page_num, cards_left,
                 job_data, analysis_threads, joined, exit_path,
                 job_data_lock, last_write>>

CrawlNext ==
  \/ FindCards \/ CrawlCard \/ Paginate \/ PageError \/ UpdateJobDetails
  \/ AnalyzeJobAsync
  \/ JoinThreads \/ InsertJobData \/ MakeTable \/ ImportLegacyJobs

CrawlSpec == CrawlInit /\ [][CrawlNext]_vars

\* ----------------------------------------------------- the job inserter
\* The records of a batch and the inserters of a run of the model.
MaxBatch == 2
MaxRuns == 2

\* The "JobID" of a record: absent, a string, or a number (as pandas reads
\* it from a CSV file).
JobIds ==
  { [kind |-> "absent", str |-> <<>>],
    [kind |-> "str", str |-> <<"a">>],
    [kind |-> "int", str |-> <<"1">>] }
Batches == UNION { [1..n -> JobIds] : n \in 1..MaxBatch }

\* What the database and the connection do to the statements of a record:
\* the INSERT, the linking of the skills (none to link, linked, or an
\* error) and the COMMIT succeed or raise; the connection may be lost.
Environments ==
  [insert : {"ok", "error"}, skills : {"none", "ok", "error"},
   commit : {"ok", "error"}, lost : BOOLEAN]

\* load_existing_job_ids: str(row[0]) of `SELECT job_id FROM job`, job_id
\* being the serial key of the table; the empty set when the query raises.
load_existing_job_ids(rows, loaded) ==
  IF loaded THEN { StrOf(row.job_id) : row \in rows } ELSE {}

\* is_duplicate_job
is_duplicate_job(st, job_id) == job_id \in st.existing_job_ids

\* conn.rollback(): the statements since the last commit are undone; it
\* raises on a lost connection.  The mutant undoes nothing.
RollbackNothing(st) == [st |-> st, raised |-> st.lost]
Rollback(st) ==
  [st |-> [st EXCEPT !.pending = {}, !.tx = "idle"], raised |-> st.lost]

\* insert_job: ret is the row's job_id, 0 for None; raised, when the
\* rollback of the except clause raises.
insert_job(st, job, env) ==
  LET job_id_hash == job.str IN
  IF is_duplicate_job(st, job_id_hash)
    THEN [st |-> st, ret |-> 0, raised |-> FALSE]
  ELSE IF st.lost \/ env.insert = "error"
    THEN LET undone == Rollback([st EXCEPT !.tx = "failed"]) IN
         [st |-> undone.st, ret |-> 0, raised |-> undone.raised]
  ELSE [st |-> [st EXCEPT
                  !.serial = @ + 1,
                  !.pending = @ \cup {[job_id |-> st.serial + 1,
                                       JobID |-> job_id_hash,
                                       run |-> runs]},
                  !.tx = "open",
                  !.existing_job_ids = @ \cup {job_id_hash}],
        ret |-> st.serial + 1, raised |-> FALSE]

\* insert_analyzed_job: insert_job, insert_job_skills (which catches its
\* errors and leaves the transaction failed) and the commit.  COMMIT on a
\* failed transaction is answered by the server with a rollback, and does
\* not raise.
insert_analyzed_job(st, job, env) ==
  LET inserted == insert_job(st, job, env) IN
  IF inserted.raised
    THEN LET undone == Rollback(inserted.st) IN
         [st |-> undone.st, ret |-> FALSE, raised |-> undone.raised]
  ELSE IF inserted.ret = 0
    THEN [st |-> inserted.st, ret |-> FALSE, raised |-> FALSE]
  ELSE
    LET linked == IF env.skills = "error"
                    THEN [inserted.st EXCEPT !.tx = "failed"]
                    ELSE inserted.st
    IN
    IF linked.tx = "failed"
      THEN [st |-> [linked EXCEPT !.pending = {}, !.tx = "idle"],
            ret |-> TRUE, raised |-> FALSE]
    ELSE IF env.commit = "error"
      THEN LET undone == Rollback(linked) IN
           [st |-> undone.st, ret |-> FALSE, raised |-> undone.raised]
    ELSE [st |-> [linked EXCEPT !.rows = @ \cup linked.pending,
                                !.pending = {}, !.tx = "idle"],
          ret |-> TRUE, raised |-> FALSE]

\* insert_job_batch: job_id = job_data.get("JobID", f"unknown_{i}"), the
\* value its duplicate test is made with.
BatchJobId(job, i) ==
  IF job.kind = "absent"
    THEN <<"u","n","k","n","o","w","n","_">> \o StrOf(i)
    ELSE job.str

StoreInit ==
  /\ ClientIdle
  /\ TimeIdle
  /\ JobsIdle
  /\ CrawlIdle
  /\ CsvIdle
  /\ MoreIdle
  /\ inserter = Inserter({}, 0, {})
  /\ job_data_list \in Batches
  /\ batch_i = 0
  /\ stats = BatchStats(Len(job_data_list))
  /\ runs = 1

\* One turn of the loop of insert_job_batch.  A lost connection drops the
\* statements not committed.
InsertJobBatchStep ==
  /\ batch_i < Len(job_data_list)
  /\ \E env \in Environments :
       LET i == batch_i + 1
           job == job_data_list[i]
           st == IF env.lost
                   THEN [inserter EXCEPT !.lost = TRUE, !.pending = {},
                                         !.tx = "idle"]
                   ELSE inserter
           job_id == BatchJobId(job, i)
           done == insert_analyzed_job(st, job, env)
       IN
       IF job.kind = "int"
         THEN /\ stats' = [stats EXCEPT !.errors = @ + 1]
              /\ inserter' = st
       ELSE IF is_duplicate_job(st, job_id)
         THEN /\ stats' = [stats EXCEPT !.duplicates = @ + 1]
              /\ inserter' = st
       ELSE /\ inserter' = done.st
            /\ stats' = IF ~done.raised /\ done.ret
                          THEN [stats EXCEPT !.inserted = @ + 1]
                          ELSE [stats EXCEPT !.errors = @ + 1]
  /\ batch_i' = batch_i + 1
  /\ UNCHANGED <<beside_pipe, crawl_vars, csv_vars, job_data_list, runs>>

\* The batch is over, the connection is closed; a later run constructs a
\* JobDatabaseInserter and inserts the postings it finds, the same ones.
NewInserter ==
  /\ batch_i = Len(job_data_list)
  /\ runs < MaxRuns
  /\ \E loaded \in BOOLEAN :
       inserter' = Inserter(inserter.rows, inserter.serial,
                            load_existing_job_ids(inserter.rows, loaded))
  /\ batch_i' = 0
  /\ stats' = BatchStats(Len(job_data_list))
  /\ runs' = runs + 1
  /\ UNCHANGED <<beside_pipe, crawl_vars, csv_vars, job_data_list>>

StoreNext == InsertJobBatchStep \/ NewInserter

StoreSpec == StoreInit /\ [][StoreNext]_vars

\* ------------------------------------------------------ the CSV exporter
\* self.exclude_columns and self.standard_columns
exclude_columns ==
  { "job_description_embedding", "job_requirements_embedding",
    "requirements_embedding", "description_embedding" }
standard_columns ==
  << "job_id", "job_title", "company_name", "salary", "location",
     "posted_date", "job_expertise", "yoe", "work_type",
     "job_requirements", "job_description", "company_id",
     "company_description" >>

\* The key field_mapping reads for a column when the record has no key of
\* the column's name ("": none, the default is '').
SecondKey ==
  [ job_id |-> "", job_title |-> "Title", company_name |-> "Company",
    salary |-> "Salary", location |-> "Location",
    posted_date |-> "Posted_Date", job_expertise |-> "Job_Expertise",
    yoe |-> "Experience", work_type |-> "",
    job_requirements |-> "requirements", job_description |-> "Description",
    company_id |-> "", company_description |-> "company_infomation" ]

\* Python's None, and dict.get(key, default)
PyNone == "<None>"
Get(dict, key, default) ==
  IF key \in DOMAIN dict THEN dict[key] ELSE default

\* _filter_job_data, with the mutant that reads the second key alone where
\* there is one.
FilterSecondKeyOnly(job) ==
  [ key \in DOMAIN SecondKey \ exclude_columns |->
      IF SecondKey[key] = "" THEN Get(job, key, "")
      ELSE Get(job, SecondKey[key], "") ]
filter_job_data(job) ==
  [ key \in DOMAIN SecondKey \ exclude_columns |->
      Get(job, key,
          IF SecondKey[key] = "" THEN "" ELSE Get(job, SecondKey[key], "")) ]

\* csv.DictWriter(csvfile, fieldnames=self.standard_columns).writerow: a
\* key that is no field name raises ValueError, a missing one and None are
\* written as the empty field.
writerow(rowdict) ==
  [ raised |-> \E key \in DOMAIN rowdict :
                 \A i \in 1..Len(standard_columns) : standard_columns[i] # key,
    row |-> [ i \in 1..Len(standard_columns) |->
              LET value == Get(rowdict, standard_columns[i], "") IN
              IF value = PyNone THEN "" ELSE value ] ]

\* append_single_job on the file (<<>>: there is no file): the header is
\* written when the file is missing; an exception is caught.
append_single_job(file, job) ==
  LET filtered_data == filter_job_data(job)
      existing == IF file = <<>> THEN <<standard_columns>> ELSE file
      written == writerow(filtered_data)
  IN IF written.raised THEN existing ELSE Append(existing, written.row)

\* append_jobs_batch: every record filtered, then given to
\* append_single_job in turn.
RECURSIVE AppendEach(_, _)
AppendEach(file, jobs) ==
  IF jobs = <<>> THEN file
  ELSE AppendEach(append_single_job(file, Head(jobs)), Tail(jobs))
append_jobs_batch(jobs_data, file) ==
  AppendEach(file, [i \in 1..Len(jobs_data) |-> filter_job_data(jobs_data[i])])

\* The records: keys of the columns' names, second keys, vector keys and a
\* key that is none of these; a value names the key it is the value of, a
\* vector is "vector", and the columns' keys may hold None.
CsvRecords ==
  LET columns == DOMAIN SecondKey
      seconds == { SecondKey[c] : c \in columns } \ {""}
      KeySets == { a \cup b \cup c :
                     a \in {{}, columns, {"job_id", "job_title", "yoe"}},
                     b \in {{}, seconds},
                     c \in {{}, exclude_columns \cup {"link"}} }
  IN { [ key \in keys |->
           IF key \in exclude_columns THEN "vector"
           ELSE IF none /\ key \in columns THEN PyNone
           ELSE key ] : keys \in KeySets, none \in BOOLEAN }

\* The rows of a file, its header apart.
DataRows(file) == IF file = <<>> THEN 0 ELSE Len(file) - 1

\* pd.read_csv of an exported file: a record for each row under the
\* header, its fields named by the header.
read_csv(file) ==
  [ k \in 1..DataRows(file) |->
      [ key \in { file[1][i] : i \in 1..Len(file[1]) } |->
          LET i == CHOOSE i \in 1..Len(file[1]) : file[1][i] = key IN
          file[k + 1][i] ] ]

CsvInit ==
  /\ ClientIdle
  /\ TimeIdle
  /\ JobsIdle
  /\ CrawlIdle
  /\ StoreIdle
  /\ MoreIdle
  /\ csv_jobs \in CsvRecords \X CsvRecords
  /\ \E file \in {<<>>, <<standard_columns>>} :
       csv_single = file /\ csv_batch = file

\* append_single_job with the next record.
AppendSingleJob ==
  /\ DataRows(csv_single) < Len(csv_jobs)
  /\ csv_single' =
       append_single_job(csv_single, csv_jobs[DataRows(csv_single) + 1])
  /\ UNCHANGED <<beside_pipe, crawl_vars, store_vars, csv_jobs, csv_batch>>

\* append_jobs_batch with the records.
AppendJobsBatch ==
  /\ DataRows(csv_batch) = 0
  /\ csv_batch' = append_jobs_batch(csv_jobs, csv_batch)
  /\ UNCHANGED <<beside_pipe, crawl_vars, store_vars, csv_jobs, csv_single>>

CsvNext == AppendSingleJob \/ AppendJobsBatch

CsvSpec == CsvInit /\ [][CsvNext]_vars

\* ------------------------------------------------------ the job analyzer
\* The records of a legacy file the analyzer is given, the remote calls the
\* analysis threads of crawl_linkedin make beside it, and the last instant
\* of the model's clock (in tenths of a second).
MaxJobs == 2
MaxThreadCalls == 2
MaxClock == 84

\* AsyncJobAnalyzer.min_delay = 4.2, in tenths of a second.
min_delay == 42

\* generate_internal_hash: the digest of the lower-cased, trimmed title and
\* company joined by "|", and the mutant that takes them as they come.
InternalHashAsGiven(job_title, company) ==
  [md5_16 |-> job_title \o <<"|">> \o company]
generate_internal_hash(job_title, company) ==
  [md5_16 |-> Strip(Lower(job_title)) \o <<"|">> \o Strip(Lower(company))]

\* The records: titles that differ by case and white space, one company.
AnalyzerJobs ==
  [job_title : { <<"D","e","v">>, <<" ","D","E","V">>, <<"O","p","s">> },
   company_name : { <<"A","c","m","e">> }]

\* An asyncio task that is not inside analyze_single_job.
NoTask == [pc |-> "idle", job |-> 0, wake |-> 0, ret |-> "none"]
Tasks == {1, 2}

\* A new AsyncJobAnalyzer (lines 15-25) and the records given to it.
\* time.time() is far from 0: the first call finds the delay elapsed.
AnalyzerInit ==
  /\ ClientIdle
  /\ TimeIdle
  /\ JobsIdle
  /\ CrawlIdle
  /\ StoreIdle
  /\ CsvIdle
  /\ BackupIdle
  /\ clock = min_delay
  /\ last_call_time = 0
  /\ processed_hashes = {}
  /\ an_jobs_data \in UNION { [1..n -> AnalyzerJobs] : n \in 1..MaxJobs }
  /\ job_index = 0
  /\ task = [t \in Tasks |-> NoTask]
  /\ remote_calls = <<>>

\* analyze_single_job after _enforce_rate_limit has set last_call_time
\* (lines 113-136): the duplicate test, the mark, and the call of
\* analyze_job_content, which starts the remote call; there is no await
\* between them.
AfterRateLimit(t, i) ==
  LET job == an_jobs_data[i]
      internal_hash == generate_internal_hash(job.job_title, job.company_name)
  IN
  /\ last_call_time' = clock
  /\ IF internal_hash \in processed_hashes
       THEN /\ task' = [task EXCEPT ![t] =
                  [pc |-> "idle", job |-> i, wake |-> 0, ret |-> "duplicate"]]
            /\ UNCHANGED <<processed_hashes, remote_calls>>
       ELSE /\ processed_hashes' = processed_hashes \cup {internal_hash}
            /\ task' = [task EXCEPT ![t] =
                 [pc |-> "analysis", job |-> i, wake |-> 0, ret |-> "none"]]
            /\ remote_calls' = Append(remote_calls,
                 [at |-> clock, by |-> "analyzer", job |-> i])

\* A task calls analyze_single_job with the next record: _enforce_rate_limit
\* (lines 87-98) sleeps for what is left of min_delay, or goes on at once.
AnalyzeSingleJob ==
  /\ job_index < Len(an_jobs_data)
  /\ \E t \in Tasks :
       /\ task[t].pc = "idle"
       /\ job_index' = job_index + 1
       /\ LET time_since_last_call == clock - last_call_time IN
          IF time_since_last_call < min_delay
            THEN /\ task' = [task EXCEPT ![t] =
                       [pc |-> "sleep", job |-> job_index + 1,
                        wake |-> clock + (min_delay - time_since_last_call),
                        ret |-> "none"]]
                 /\ UNCHANGED <<last_call_time, processed_hashes,
                                remote_calls>>
            ELSE AfterRateLimit(t, job_index + 1)
  /\ UNCHANGED <<old_vars, backup_vars, clock, an_jobs_data>>

\* asyncio.sleep(delay) is over.
WakeUp ==
  /\ \E t \in Tasks :
       /\ task[t].pc = "sleep"
       /\ clock >= task[t].wake
       /\ AfterRateLimit(t, task[t].job)
  /\ UNCHANGED <<old_vars, backup_vars, clock, an_jobs_data, job_index>>

\* analyze_job_content returns, or raises and the except clause returns
\* None (lines 170-172).
AnalysisReturns ==
  /\ \E t \in Tasks, result \in {"enhanced_job_data", "failed"} :
       /\ task[t].pc = "analysis"
       /\ task' = [task EXCEPT ![t] = [@ EXCEPT !.pc = "idle", !.ret = result]]
  /\ UNCHANGED <<old_vars, backup_vars, clock, last_call_time,
                 processed_hashes, an_jobs_data, job_index, remote_calls>>

\* An analysis thread of crawl_linkedin (linkedinCrawler.py 489-496) runs
\* analyze_job_async, which calls analyze_job_content itself.
ThreadAnalysis ==
  /\ Cardinality({k \in 1..Len(remote_calls) : remote_calls[k].by = "thread"})
       < MaxThreadCalls
  /\ remote_calls' = Append(remote_calls,
       [at |-> clock, by |-> "thread", job |-> 0])
  /\ UNCHANGED <<old_vars, backup_vars, clock, last_call_time,
                 processed_hashes, an_jobs_data, job_index, task>>

\* Time passes.
ClockAdvances ==
  /\ \E d \in {min_delay \div 2, min_delay} :
       /\ clock + d <= MaxClock
       /\ clock' = clock + d
  /\ UNCHANGED <<old_vars, backup_vars, last_call_time, processed_hashes,
                 an_jobs_data, job_index, task, remote_calls>>

AnalyzerNext ==
  \/ AnalyzeSingleJob \/ WakeUp \/ AnalysisReturns \/ ThreadAnalysis
  \/ ClockAdvances

AnalyzerSpec == AnalyzerInit /\ [][AnalyzerNext]_vars

\* ------------------------------------------------------- the backup files
\* The backup files of earlier days, the rows of a file, and the runs of
\* load_backup.
MaxFiles == 2
MaxRows == 2
MaxLoads == 2

\* The JobID column of a backup file, row by row.
BackupRows == UNION { [1..n -> {"a", "b"}] : n \in 0..MaxRows }

\* set(today_df['JobID'])
JobIdSet(df) == { df[k] : k \in 1..Len(df) }

\* all_jobs_df[~all_jobs_df['JobID'].isin(existing_jobids)]
NotIsin(df, existing_jobids) ==
  SelectSeq(df, LAMBDA JobID : JobID \notin existing_jobids)

\* pd.concat(dfs, ignore_index=True)
RECURSIVE Concat(_)
Concat(dfs) ==
  IF dfs = <<>> THEN <<>> ELSE Head(dfs) \o Concat(Tail(dfs))

\* The backup directory: files of earlier days with any rows; today's file
\* is missing (<<>>), or holds rows (<<rows>>) of distinct JobIDs.
BackupInit ==
  /\ ClientIdle
  /\ TimeIdle
  /\ JobsIdle
  /\ CrawlIdle
  /\ StoreIdle
  /\ CsvIdle
  /\ AnalyzerIdle
  /\ backup_csvs \in UNION { [1..n -> BackupRows] : n \in 0..MaxFiles }
  /\ today_backup \in
       {<<>>} \cup { <<rows>> : rows \in
                       { r \in BackupRows : Cardinality(JobIdSet(r)) = Len(r) } }
  /\ load_runs = 0
  /\ appended = <<>>

\* load_backup (lines 24-65).  glob sorts the files by name: today's file,
\* named by the date, comes after those of earlier days.
LoadBackup ==
  /\ load_runs < MaxLoads
  /\ load_runs' = load_runs + 1
  /\ LET dfs == backup_csvs \o today_backup
         all_jobs_df == Concat(dfs)
         today_df == IF today_backup # <<>> THEN today_backup[1] ELSE <<>>
         existing_jobids == JobIdSet(today_df)
         new_jobs_df == NotIsin(all_jobs_df, existing_jobids)
     IN
     IF dfs = <<>>
       THEN UNCHANGED <<today_backup, appended>>
       ELSE /\ today_backup' = <<today_df \o new_jobs_df>>
            /\ appended' = new_jobs_df
  /\ UNCHANGED <<old_vars, analyzer_vars, backup_csvs>>

\* A backup file of another day is put into the directory.
NewBackupFile ==
  /\ Len(backup_csvs) < MaxFiles
  /\ \E rows \in BackupRows : backup_csvs' = Append(backup_csvs, rows)
  /\ load_runs' = 0
  /\ UNCHANGED <<old_vars, analyzer_vars, today_backup, appended>>

BackupNext == LoadBackup \/ NewBackupFile

BackupSpec == BackupInit /\ [][BackupNext]_vars

\* ------------------------------------------------------- the retry client
AllKeys == {api_keys[i] : i \in 1..Len(api_keys)}
LoopLeft(t) == pc[t] \in {"done", "e_return"}
AllCredential(requests) ==
  \A i \in 1..Len(requests) : requests[i] = "cred"

\* C1: a retry loop over a pool of n keys never makes more than n requests;
\* a loop that gives up on credential errors has made exactly n requests,
\* all of them failed with a credential error, and returns the default (the
\* analysis) or the empty vector (the embedding); and once n requests have
\* failed with credential errors the loop is left, with no further request.
C1_BoundedRetry ==
  \A t \in Threads :
    /\ Len(attempts[t]) <= Len(api_keys)
    /\ (pc[t] = "done" /\ why[t] = "exhausted")
         => /\ Len(attempts[t]) = Len(api_keys)
            /\ AllCredential(attempts[t])
            /\ ret[t] = "default"
    /\ (Len(attempts[t]) = Len(api_keys) /\ AllCredential(attempts[t]))
         => /\ LoopLeft(t)
            /\ pc[t] = "done" => (ret[t] = "default" /\ why[t] = "exhausted")
            /\ pc[t] = "e_return" => e_ret[t] = "empty"

\* Three keys, three credential errors, one caller: the call has given up.
C1_Witness ==
  /\ Sequential
  /\ Len(api_keys) = 3
  /\ pc[1] = "done" /\ why[1] = "exhausted"
  /\ Len(attempts[1]) = 3 /\ tried[1] = AllKeys

\* C2: when the exception being handled has a message whose lower-cased
\* text contains none of the loop's tokens, the handler returns the default
\* (the analysis) or the empty vector (the embedding) in that step, without
\* a further request and without moving the cursor; with one caller, an
\* abort on the first request leaves the cursor where the loop found it.
C2_Step(t) ==
  /\ (pc[t] = "a_except" /\ pc'[t] # "a_except"
        /\ ~AnyTokenIn(Lower(error_message[t]), AnalyzeTokens))
       => /\ pc'[t] = "done" /\ ret'[t] = "default" /\ why'[t] = "abort"
          /\ attempts'[t] = Append(attempts[t], "other")
          /\ current_index' = current_index
          /\ (Sequential /\ Len(attempts[t]) = 0)
               => current_index' = entry_index[t]
  /\ (pc[t] = "e_except" /\ pc'[t] # "e_except"
        /\ ~AnyTokenIn(Lower(error_message[t]), EmbedTokens))
       => /\ pc'[t] = "e_return" /\ e_ret'[t] = "empty"
          /\ attempts'[t] = Append(attempts[t], "other")
          /\ current_index' = current_index
          /\ (Sequential /\ Len(attempts[t]) = 0)
               => current_index' = entry_index[t]
C2_NonCredentialAborts == [][\A t \in Threads : C2_Step(t)]_vars

\* The analysis has aborted on its second request, after one rotation.
C2_Witness ==
  /\ pc[1] = "done" /\ why[1] = "abort" /\ ret[1] = "default"
  /\ attempts[1] = <<"cred", "other">>
  /\ current_index = 1

\* C3 as stated: the analysis call never raises to its caller.
C3_NeverRaises == \A t \in Threads : ret[t] # "raise"

\* C4: the cursor is an index of the pool; the only step that moves it is
\* next_key's store, which stores (the index next_key read + 1) mod the
\* pool size, and with one caller that is (current_index + 1) mod the pool
\* size; no step changes the list of keys.
C4_Step ==
  /\ api_keys' = api_keys
  /\ current_index' # current_index
       => \E t \in Threads : pc[t] = "nk_write" /\ pc'[t] = "nk_get"
  /\ \A t \in Threads :
       (pc[t] = "nk_write" /\ pc'[t] = "nk_get")
         => /\ current_index' = (nk_index[t] + 1) % Len(api_keys)
            /\ Sequential
                 => current_index' = (current_index + 1) % Len(api_keys)
C4_KeyPool ==
  /\ [](0 <= current_index /\ current_index <= Len(api_keys) - 1)
  /\ [][C4_Step]_vars

\* next_key has wrapped the cursor of a three-key pool round to 0.
C4_Witness ==
  /\ Len(api_keys) = 3
  /\ pc[1] = "nk_get" /\ current_index = 0

\* C5 as stated: a call that returns the default because of credential
\* errors has made a request with every key of the pool.
C5_ExhaustedTriedAll ==
  \A t \in Threads :
    (pc[t] = "done" /\ why[t] = "exhausted") => tried[t] = AllKeys

\* C6 as stated: when the analysis call returns the result, the cursor is
\* the index of the key the successful request was made with.
C6_CursorAtReturn ==
  \A t \in Threads :
    (Sequential /\ pc[t] = "done" /\ ret[t] = "result")
      => api_keys[current_index + 1] = ok_key[t]

\* C6 amended: the step in which a request succeeds does not move the
\* cursor, and with one caller the cursor is then the index of the key the
\* request was made with, for the analysis request and for each embedding
\* request.
C6_Step(t) ==
  /\ (pc[t] = "a_request" /\ pc'[t] \notin {"a_request", "a_except"})
       => /\ current_index' = current_index
          /\ ok_key'[t] = current_key[t]
          /\ Sequential => api_keys[current_index' + 1] = ok_key'[t]
  /\ (pc[t] = "e_request" /\ pc'[t] = "e_return")
       => /\ current_index' = current_index
          /\ Sequential => api_keys[current_index' + 1] = e_current_key[t]
C6_CursorAtSuccess == [][\A t \in Threads : C6_Step(t)]_vars

\* The analysis request has succeeded with the second key, after a rotation.
C6_Witness ==
  /\ Sequential
  /\ pc[1] = "e_request" /\ ok_key[1] = "key-b" /\ current_index = 1

\* C7: with one caller, the first request of a call is made with the key at
\* the index where the previous call left the cursor; a call that gives up
\* on an n-key pool entered at cursor c leaves the cursor at (c + n - 1) mod
\* n, so the next call's first request is made with that key.
C7_Step(t) ==
  (Sequential /\ calls'[t] = calls[t] + 1)
    => /\ prev'[t].end = current_index
       /\ current_index' = current_index
       /\ current_key'[t] = api_keys[prev'[t].end + 1]
       /\ prev'[t].why = "exhausted"
            => current_key'[t] =
                 api_keys[((prev'[t].start + Len(api_keys) - 1)
                           % Len(api_keys)) + 1]
C7_CursorPersists == [][\A t \in Threads : C7_Step(t)]_vars

\* The second call starts with the third key of three, where the first
\* call, which gave up, left the cursor.
C7_Witness ==
  /\ Sequential
  /\ Len(api_keys) = 3
  /\ calls[1] = 2 /\ prev[1].why = "exhausted" /\ prev[1].start = 0
  /\ pc[1] = "a_request" /\ attempts[1] = <<>> /\ current_key[1] = "key-c"

\* C8 as stated: on every exception the embedding loop takes the decision
\* the analysis loop takes.
C8_SamePolicy ==
  \A t \in Threads :
    /\ pc[t] = "a_except"
         => EmbedDecision(error_message[t], retries[t], max_retries[t])
              = AnalyzeDecision(error_message[t], retries[t], max_retries[t])
    /\ pc[t] = "e_except"
         => EmbedDecision(error_message[t], e_retries[t], e_max_retries[t])
              = AnalyzeDecision(error_message[t], e_retries[t],
                                e_max_retries[t])


\* ------------------------------------------------------ the time resolver
\* C9 as stated: parse_posted_time never raises, whatever the text and the
\* reference.
C9_NeverRaises ==
  parsed.itviec.status # "raised" /\ parsed.linkedin.status # "raised"

\* The date "N months ago" names, by the rule: the month is m - N plus as
\* many times 12 as brings it into 1..12, the year goes back once per 12
\* added, the day is the reference's or the last of that month.
C10_Expected(current_date, months) ==
  LET added == (months - current_date.month + 12) \div 12
      year == current_date.year - added
      month == current_date.month - months + 12 * added
      last == DaysInMonth(year, month)
  IN [year |-> year, month |-> month,
      day |-> IF current_date.day < last THEN current_date.day ELSE last]
C10_Resolved(result) ==
  /\ \A months \in 0..MaxCount : \A prefix \in {<<>>, P_Posted} :
       posted_text = AgoText(prefix, months, W.month)
         => result = Returned(StrfTime(C10_Expected(now_date, months),
                                       zero_pad))
  /\ (posted_text = AgoText(<<>>, 1, W.month)
       /\ now_date = Instant(2024, 3, 31, 10, 30))
       => result.value = <<"2","0","2","4","-","0","2","-","2","9">>
  /\ (posted_text = AgoText(<<>>, 5, W.month)
       /\ now_date = Instant(2023, 3, 15, 0, 0))
       => result.value = <<"2","0","2","2","-","1","0","-","1","5">>

\* C10: "N months ago" resolves, in both crawlers, to the month m - N
\* brought into 1..12 by adding 12 while the year goes back once per
\* addition, on the reference's day or, if that month has no such day, on
\* its last day, February's length following the Gregorian leap rule;
\* 2024-03-31 minus 1 month is 2024-02-29 and 2023-03-15 minus 5 months is
\* 2022-10-15.
C10_MonthsAgo ==
  /\ parsed.itviec # NotCalled => C10_Resolved(parsed.itviec)
  /\ parsed.linkedin # NotCalled => C10_Resolved(parsed.linkedin)

\* Both crawlers have resolved "1 month ago" on 2024-03-31 to the leap day.
C10_Witness ==
  /\ posted_text = AgoText(<<>>, 1, W.month)
  /\ now_date = Instant(2024, 3, 31, 10, 30)
  /\ parsed.itviec = Returned(<<"2","0","2","4","-","0","2","-","2","9">>)
  /\ parsed.linkedin = Returned(<<"2","0","2","4","-","0","2","-","2","9">>)

\* The date "N years ago" names, by the rule: the reference's month and day
\* in the year y - N, Feb 29 becoming Feb 28 when that year is no leap year.
C11_Expected(current_date, years) ==
  LET year == current_date.year - years IN
  [year |-> year, month |-> current_date.month,
   day |-> IF current_date.month = 2 /\ current_date.day = 29 /\ ~IsLeap(year)
             THEN 28 ELSE current_date.day]
C11_Resolved(result) ==
  \A years \in 0..MaxCount : \A prefix \in {<<>>, P_Posted} :
    posted_text = AgoText(prefix, years, W.year)
      => result = Returned(StrfTime(C11_Expected(now_date, years), zero_pad))

\* C11: "N years ago" resolves, in both crawlers, to the reference's month
\* and day in the year y - N, except that a Feb 29 reference resolves to Feb
\* 28 when the year y - N is not a leap year.
C11_YearsAgo ==
  /\ parsed.itviec # NotCalled => C11_Resolved(parsed.itviec)
  /\ parsed.linkedin # NotCalled => C11_Resolved(parsed.linkedin)

\* Both crawlers have resolved "1 year ago" on 2024-02-29 to 2023-02-28.
C11_Witness ==
  /\ posted_text = AgoText(<<>>, 1, W.year)
  /\ now_date = Instant(2024, 2, 29, 23, 59)
  /\ parsed.itviec = Returned(<<"2","0","2","3","-","0","2","-","2","8">>)
  /\ parsed.linkedin = Returned(<<"2","0","2","3","-","0","2","-","2","8">>)

\* The minutes in one minute, hour, day, week.
C12_Minutes(unit) ==
  IF unit = W.minute THEN 1
  ELSE IF unit = W.hour THEN 60
  ELSE IF unit = W.day THEN 1440
  ELSE 10080
C12_Subtracted(result) ==
  /\ \A unit \in {W.minute, W.hour, W.day, W.week} :
       \A n \in 0..MaxCount : \A prefix \in {<<>>, P_Posted} :
         posted_text = AgoText(prefix, n, unit)
           => result = MinusMinutes(now_date, n * C12_Minutes(unit), zero_pad)
  /\ posted_text = T_yesterday => result = MinusDays(now_date, 1, zero_pad)

\* C12 as stated: "yesterday" and every "N minutes/hours/days/weeks ago"
\* resolve, in both crawlers, to the calendar date of the instant
\* (reference - that duration).
C12_DurationSubtracted ==
  /\ parsed.itviec # NotCalled => C12_Subtracted(parsed.itviec)
  /\ parsed.linkedin # NotCalled => C12_Subtracted(parsed.linkedin)

\* The same of the ITviec crawler alone.
C12_ItviecSubtracted ==
  parsed.itviec # NotCalled => C12_Subtracted(parsed.itviec)

\* The text the ITviec rules look at: lower-cased, trimmed, without a leading
\* "posted".
C13_Clean(text_in) ==
  LET lowered == Strip(Lower(text_in)) IN
  IF StartsWithAt(lowered, 1, W.posted)
    THEN Strip(SubSeq(lowered, 7, Len(lowered)))
    ELSE lowered
\* The relative patterns in the order minutes, hours, days, weeks, months,
\* years; the first that matches decides.
C13_Relative(s, current_date, pad) ==
  IF AgoFound(s, W.minute)
    THEN MinusMinutes(current_date, AgoCount(s, W.minute), pad)
  ELSE IF AgoFound(s, W.hour)
    THEN MinusMinutes(current_date, 60 * AgoCount(s, W.hour), pad)
  ELSE IF AgoFound(s, W.day)
    THEN MinusDays(current_date, AgoCount(s, W.day), pad)
  ELSE IF AgoFound(s, W.week)
    THEN MinusDays(current_date, 7 * AgoCount(s, W.week), pad)
  ELSE IF AgoFound(s, W.month)
    THEN MonthsAgo(current_date, AgoCount(s, W.month), pad)
  ELSE IF AgoFound(s, W.year)
    THEN YearsAgo(current_date, AgoCount(s, W.year), pad)
  ELSE Today(current_date, pad)
\* The rules in the listed order: the literal date, the keywords, the
\* relative patterns.
C13_Listed(text_in, current_date, pad) ==
  LET s == C13_Clean(text_in) IN
  IF LiteralValid(s) THEN Returned(StrfTime(LiteralDate(DateGroups(s)), pad))
  ELSE IF Contains(s, W.today) \/ Contains(s, W.just_now) \/ s = <<>>
    THEN Today(current_date, pad)
  ELSE IF Contains(s, W.yesterday) THEN MinusDays(current_date, 1, pad)
  ELSE C13_Relative(s, current_date, pad)
C13_HasKeyword(text_in) ==
  \E w \in {W.today, W.just_now, W.yesterday} : Contains(C13_Clean(text_in), w)

\* C13 as stated: the ITviec resolver applies its rules in the listed order,
\* the first matching rule deciding: a valid literal date is returned even
\* when the text also contains "today", "just now" or "yesterday"; the
\* keywords come before the relative patterns; the relative patterns are
\* tried in the order minutes, hours, days, weeks, months, years.
C13_ListedOrder ==
  parsed.itviec # NotCalled
    => parsed.itviec = C13_Listed(posted_text, now_date, zero_pad)

\* The same of the texts in which no keyword stands beside a literal date.
C13_OrderBesideKeywords ==
  (parsed.itviec # NotCalled
     /\ ~(C13_HasKeyword(posted_text) /\ LiteralValid(C13_Clean(posted_text))))
    => parsed.itviec = C13_Listed(posted_text, now_date, zero_pad)

\* The cleaned text has a match of date_pattern that is no calendar date.
C14_InvalidLiteral(text_in) ==
  LET s == C13_Clean(text_in) IN
  /\ DateFound(s)
  /\ LET d == LiteralDate(DateGroups(s)) IN ~ValidDate(d.year, d.month, d.day)

\* C14: in the ITviec resolver a literal D/M/Y that is no calendar date does
\* not raise and does not decide: the result is that of the relative
\* patterns (minutes, hours, days, weeks, months, years), and the reference
\* date when none of them matches.
C14_InvalidLiteralFallsThrough ==
  (parsed.itviec # NotCalled /\ C14_InvalidLiteral(posted_text)
     /\ ~C13_HasKeyword(posted_text))
    => /\ parsed.itviec.status = "returned"
       /\ parsed.itviec
            = C13_Relative(C13_Clean(posted_text), now_date, zero_pad)
       /\ posted_text \in {T_day_32, T_month_13, T_year_0, T_literal_invalid}
            => parsed.itviec = Today(now_date, zero_pad)

\* "32/01/2023 3 days ago" on 2024-01-01 has been resolved by the days rule.
C14_Witness ==
  /\ posted_text = T_day_32_days
  /\ now_date = Instant(2024, 1, 1, 0, 5)
  /\ parsed.itviec = Returned(<<"2","0","2","3","-","1","2","-","2","9">>)

\* ---------------------------------------------------------- the dedup key
\* The two calls have titles equal after lower-casing and trimming, and
\* companies equal after lower-casing and trimming.
C15_SameNormalized ==
  /\ Strip(Lower(job_pair[1].title)) = Strip(Lower(job_pair[2].title))
  /\ Strip(Lower(job_pair[1].company)) = Strip(Lower(job_pair[2].company))
C15_Keyed(keys) == keys # <<>>

\* C15: generate_job_hash is a function of the normalized inputs.  Two calls
\* whose titles are equal after lower-casing and trimming, whose companies
\* are equal after lower-casing and trimming and whose posted dates are
\* equal return the same key, in the LinkedIn and the ITviec crawler; in the
\* legacy ITviec crawler, which takes no date, equal normalized titles and
\* companies are enough.
C15_Deterministic ==
  /\ (C15_Keyed(job_keys.linkedin) /\ C15_SameNormalized
        /\ job_pair[1].posted_date = job_pair[2].posted_date)
       => job_keys.linkedin[1] = job_keys.linkedin[2]
  /\ (C15_Keyed(job_keys.itviec) /\ C15_SameNormalized
        /\ job_pair[1].posted_date = job_pair[2].posted_date)
       => job_keys.itviec[1] = job_keys.itviec[2]
  /\ (C15_Keyed(job_keys.legacy) /\ C15_SameNormalized)
       => job_keys.legacy[1] = job_keys.legacy[2]
\* The three crawlers have keyed two postings whose titles and companies
\* differ as given, are equal once normalized, and whose dates are one
\* date string.
C15_Witness ==
  /\ C15_Keyed(job_keys.linkedin) /\ C15_Keyed(job_keys.itviec)
  /\ C15_Keyed(job_keys.legacy)
  /\ C15_SameNormalized
  /\ job_pair[1].title # job_pair[2].title
  /\ job_pair[1].company # job_pair[2].company
  /\ job_pair[1].posted_date = job_pair[2].posted_date
  /\ Truthy(job_pair[1].posted_date)
  /\ job_keys.linkedin[1] = job_keys.linkedin[2]
  /\ job_keys.itviec[1] = job_keys.itviec[2]
  /\ job_keys.legacy[1] = job_keys.legacy[2]

\* The two calls have one title and one company, and posted dates that
\* differ.
C16_DateChanged ==
  /\ job_pair[1].title = job_pair[2].title
  /\ job_pair[1].company = job_pair[2].company
  /\ job_pair[1].posted_date # job_pair[2].posted_date
\* C16: changing the posted date changes the key.  For one title and one
\* company, two posted dates that differ (two date strings, or no date and
\* a string, the empty string included) give two keys, in the LinkedIn and
\* in the ITviec crawler.
C16_DateChangesKey ==
  /\ (C15_Keyed(job_keys.linkedin) /\ C16_DateChanged)
       => job_keys.linkedin[1] # job_keys.linkedin[2]
  /\ (C15_Keyed(job_keys.itviec) /\ C16_DateChanged)
       => job_keys.itviec[1] # job_keys.itviec[2]
\* What the code does give: two keys when one of the two dates at least is
\* a string that is not empty.
C16_NonEmptyDateChangesKey ==
  /\ (C15_Keyed(job_keys.linkedin) /\ C16_DateChanged
        /\ (Truthy(job_pair[1].posted_date) \/ Truthy(job_pair[2].posted_date)))
       => job_keys.linkedin[1] # job_keys.linkedin[2]
  /\ (C15_Keyed(job_keys.itviec) /\ C16_DateChanged
        /\ (Truthy(job_pair[1].posted_date) \/ Truthy(job_pair[2].posted_date)))
       => job_keys.itviec[1] # job_keys.itviec[2]

\* ------------------------------------------------------------- the crawl
C17_Persisting == cl_pc \in {"insert", "table", "returned"}
C18_StoredOnce ==
  \A r1, r2 \in inserter.rows :
    r1.JobID = r2.JobID => r1.job_id = r2.job_id
\* What the code does give: no two rows of one job ID are rows of one run.
C18_StoredOncePerRun ==
  \A r1, r2 \in inserter.rows :
    (r1.JobID = r2.JobID /\ r1.run = r2.run) => r1.job_id = r2.job_id

\* C19: in insert_job_batch every record handled is counted once, as
\* inserted, duplicate or error, so that the three add up to the total
\* when the loop ends; a record counted as an error adds no row, and
\* between two records no statement is left uncommitted: the failed
\* record's transaction was rolled back and the batch went on.
C19_Counted ==
  /\ stats.total = Len(job_data_list)
  /\ stats.inserted + stats.duplicates + stats.errors = batch_i
  /\ batch_i = Len(job_data_list)
       => stats.inserted + stats.duplicates + stats.errors = stats.total
C19_RolledBack == inserter.pending = {} /\ inserter.tx = "idle"
C19_ErrorAddsNoRow ==
  [][stats'.errors = stats.errors + 1 => inserter'.rows = inserter.rows]_vars
C19_FailureIsolated ==
  /\ [](C19_Counted /\ C19_RolledBack)
  /\ C19_ErrorAddsNoRow
\* A batch of two whose first record failed in the database and whose
\* second was inserted all the same.
C19_Witness ==
  /\ batch_i = 2 /\ Len(job_data_list) = 2
  /\ stats.errors = 1 /\ stats.inserted = 1
  /\ job_data_list[1].kind = "str" /\ job_data_list[2].kind = "absent"
  /\ \E row \in inserter.rows :
       row.JobID = job_data_list[2].str /\ row.run = runs
  /\ ~ \E row \in inserter.rows : row.JobID = job_data_list[1].str

\* ------------------------------------------------------ the CSV exporter
\* The rows of a file have the 13 columns of the schema: the header names
\* them in order, and the field of a column is the value of the column's
\* key or of its second key, or is empty; no field is a vector and no
\* column is a vector column.
C20_Schema(file) ==
  \A r \in 1..Len(file) :
    /\ Len(file[r]) = 13
    /\ Len(file[r]) = Len(standard_columns)
    /\ r = 1 => file[r] = standard_columns
    /\ \A i \in 1..Len(file[r]) :
         /\ file[r][i] # "vector"
         /\ file[r][i] \notin exclude_columns
         /\ r > 1 => file[r][i] \in
              {"", standard_columns[i], SecondKey[standard_columns[i]]}
\* C20: every row the CSV exporter writes has the 13 columns of the schema
\* in their order and no vector field, whatever the keys of the record;
\* and append_jobs_batch, which filters the records twice, writes the rows
\* that append_single_job writes.
C20_FixedSchema ==
  /\ C20_Schema(csv_single)
  /\ C20_Schema(csv_batch)
  /\ (DataRows(csv_single) = Len(csv_jobs) /\ DataRows(csv_batch) > 0)
       => csv_batch = csv_single
\* Both have written two records that have vector keys and second keys,
\* the second with keys of the columns' names besides, to a file that was
\* not there.
C20_Witness ==
  /\ Len(csv_single) = 3 /\ Len(csv_batch) = 3
  /\ csv_single[1] = standard_columns
  /\ "requirements_embedding" \in DOMAIN csv_jobs[1]
  /\ "Title" \in DOMAIN csv_jobs[1] /\ "job_title" \notin DOMAIN csv_jobs[1]
  /\ csv_single[2][2] = "Title"
  /\ "description_embedding" \in DOMAIN csv_jobs[2]
  /\ "Title" \in DOMAIN csv_jobs[2] /\ "job_title" \in DOMAIN csv_jobs[2]
  /\ csv_batch[3][2] = "job_title"

\* -------------------------------------------------- round robin in one call
\* C22: with one caller, the j-th request of an analysis call entered at
\* cursor c on an n-key pool is made with the key at (c + j) mod n while
\* the cursor stands at that index; each rotation moves the cursor by one
\* modulo n before the retry; the keys one call has used are pairwise
\* distinct and the key of the next request is none of them.
C22_Slot(t) == (entry_index[t] + Len(attempts[t])) % Len(api_keys)
C22_RoundRobin ==
  \A t \in Threads :
    (Sequential /\ frame[t] = "analysis")
      => /\ pc[t] = "nk_get" => current_index = C22_Slot(t)
         /\ pc[t] = "nk_write"
              => NextIndex(nk_index[t], Len(api_keys)) = C22_Slot(t)
         /\ pc[t] = "a_request"
              => /\ Len(attempts[t]) < Len(api_keys)
                 /\ current_index = C22_Slot(t)
                 /\ current_key[t] = api_keys[C22_Slot(t) + 1]
                 /\ current_key[t] \notin tried[t]
                 /\ Cardinality(tried[t]) = Len(attempts[t])

\* The third request of a call that entered a three-key pool at its second
\* key: it is made with the first key, the cursor having wrapped round.
C22_Witness ==
  /\ Sequential
  /\ Len(api_keys) = 3
  /\ frame[1] = "analysis" /\ pc[1] = "a_request"
  /\ entry_index[1] = 1 /\ Len(attempts[1]) = 2
  /\ current_index = 0 /\ current_key[1] = "key-a"
  /\ tried[1] = {"key-b", "key-c"}

\* ------------------------------------------------ rotation by many callers
\* C23 as stated: next_key is atomic under concurrent callers: the step in
\* which a caller stores the rotated cursor moves the cursor the program
\* holds by exactly one modulo n, so that k rotations from cursor c end at
\* (c + k) mod n (no update is lost).
C23_Step(t) ==
  (pc[t] = "nk_write" /\ pc'[t] = "nk_get")
    => current_index' = (current_index + 1) % Len(api_keys)
C23_AtomicRotation == [][\A t \in Threads : C23_Step(t)]_vars

\* ------------------------------------------------ the two duplicate tests
\* C27 as stated: for every record of a batch, the duplicate test of
\* insert_job_batch and the duplicate test of insert_job, made on the same
\* inserter, give the same answer, records that carry no "JobID" included.
C27_SameDuplicateDecision ==
  batch_i < Len(job_data_list)
    => LET i == batch_i + 1
           job == job_data_list[i] IN
       job.kind # "int"
         => (is_duplicate_job(inserter, BatchJobId(job, i))
               <=> is_duplicate_job(inserter, job.str))

\* ------------------------------------------------ the set of known IDs
\* C28 as stated: every ID in existing_job_ids is an ID loaded from the
\* table when the inserter was made, or the ID of a record whose insert is
\* committed or still in the open transaction: an insert that was rolled
\* back leaves no ID in the set.
C28_KnownIdsAreStored ==
  inserter.existing_job_ids
    \subseteq (load_existing_job_ids(inserter.rows, TRUE)
                 \cup { row.JobID : row \in inserter.rows \cup inserter.pending })

\* ------------------------------------------------ the string that is hashed
\* The date that goes into the hashed string: none for None and for "".
C30_Date(posted_date) ==
  IF Truthy(posted_date) THEN posted_date.chars ELSE <<>>
\* The two calls differ in the normalized title, company or date.
C30_Differ ==
  \/ Strip(Lower(job_pair[1].title)) # Strip(Lower(job_pair[2].title))
  \/ Strip(Lower(job_pair[1].company)) # Strip(Lower(job_pair[2].company))
  \/ C30_Date(job_pair[1].posted_date) # C30_Date(job_pair[2].posted_date)
\* C30 as stated: the string that is hashed is injective in the normalized
\* title, company and date: two calls that differ in one of them hash two
\* strings, in the LinkedIn and in the ITviec crawler, also when a title or
\* a company holds the character "|".
C30_InjectiveJobString ==
  /\ (C15_Keyed(job_keys.linkedin) /\ C30_Differ)
       => job_keys.linkedin[1].sha256 # job_keys.linkedin[2].sha256
  /\ (C15_Keyed(job_keys.itviec) /\ C30_Differ)
       => job_keys.itviec[1].sha256 # job_keys.itviec[2].sha256

\* ------------------------------------------------ the lock on the results
\* C24 as stated: while analysis threads may be running, every write to the
\* shared job results (an append to job_data in crawl_linkedin, the field
\* updates of analyze_job_async) is made inside `with job_data_lock`, so
\* that no write is made while another thread is inside its with block;
\* and no two threads are inside the with block at once.
C24_Updating == { k \in 1..Len(analysis_threads) : analysis_threads[k] = "updating" }
C24_WritesUnderLock ==
  /\ \A k \in 1..Len(last_write) : last_write[k].holder = 0
  /\ Cardinality(C24_Updating) <= 1
  /\ job_data_lock # 0 => C24_Updating = {job_data_lock}

\* ------------------------------------------------------ the job analyzer
\* C25 as stated: any two remote analysis calls of the process start at
\* least min_delay apart, whichever analyzer, asyncio task or thread makes
\* them.
C25_MinDelayApart ==
  \A i, j \in 1..Len(remote_calls) :
    i < j => remote_calls[j].at - remote_calls[i].at >= min_delay

\* The remote calls the analyzer has made, and the lower-cased, trimmed
\* title and company of the record a call was made for.
C29_Calls == { k \in 1..Len(remote_calls) : remote_calls[k].by = "analyzer" }
C29_Pair(k) ==
  LET job == an_jobs_data[remote_calls[k].job] IN
  <<Strip(Lower(job.job_title)), Strip(Lower(job.company_name))>>
C29_Inv ==
  /\ \A i, j \in C29_Calls : C29_Pair(i) = C29_Pair(j) => i = j
  /\ Cardinality(processed_hashes) >= Cardinality(C29_Calls)
  /\ \A t \in Tasks :
       task[t].ret = "duplicate"
         => \E k \in C29_Calls :
              /\ remote_calls[k].job # task[t].job
              /\ LET job == an_jobs_data[task[t].job] IN
                 C29_Pair(k) = <<Strip(Lower(job.job_title)),
                                 Strip(Lower(job.company_name))>>
\* C29: over the calls of analyze_single_job on one analyzer, by one task
\* or by tasks that interleave, the remote analysis is called at most once
\* for a lower-cased, trimmed title and company; a record is marked before
\* its analysis is called, so that a record reported as a duplicate is one
\* whose pair was analysed before, whether that analysis returned or
\* raised; and processed_hashes only grows.
C29_AnalysedOnce ==
  []C29_Inv /\ [][processed_hashes \subseteq processed_hashes']_vars

\* Two records of one pair, written differently: the analysis of the first
\* has raised, the second was reported as a duplicate, one remote call was
\* made.
C29_Witness ==
  /\ Len(an_jobs_data) = 2
  /\ an_jobs_data[1].job_title # an_jobs_data[2].job_title
  /\ \E t1, t2 \in Tasks :
       /\ task[t1].job = 1 /\ task[t1].pc = "idle" /\ task[t1].ret = "failed"
       /\ task[t2].job = 2 /\ task[t2].ret = "duplicate"
  /\ Cardinality(C29_Calls) = 1

\* ------------------------------------------------------- the backup files
\* C26 as stated: load_backup appends to today's backup only rows whose
\* JobID the file does not hold yet; after any number of runs over any
\* backup files, no two rows of today's backup have one JobID; and a second
\* run over unchanged files appends nothing.
C26_UniqueJobIds ==
  load_runs >= 1
    => /\ \A k \in 1..Len(today_backup) :
            Cardinality(JobIdSet(today_backup[k])) = Len(today_backup[k])
       /\ load_runs >= 2 => appended = <<>>

\* ------------------------------------------------------ the CSV exporter
\* C21 as stated: a batch of N postings exported by append_jobs_batch and
\* read back gives N rows, and the row of each posting holds every field of
\* the posting that is no embedding, with the posting's value (the empty
\* field for None).
C21_RoundTrip ==
  DataRows(csv_batch) > 0
    => LET rows == read_csv(csv_batch) IN
       /\ Len(rows) = Len(csv_jobs)
       /\ \A k \in 1..Len(rows) :
            \A key \in DOMAIN csv_jobs[k] \ exclude_columns :
              /\ key \in DOMAIN rows[k]
              /\ rows[k][key] = (IF csv_jobs[k][key] = PyNone THEN ""
                                  ELSE csv_jobs[k][key])

====
